---- MODULE Spec2Model ----
(***************************************************************************)
(* Model of analysis/segmentation.py: the per-profile segmentation         *)
(* pipeline (prepare_segment, run_factor_analysis, pick_cluster_count,     *)
(* cluster_factors, summarize_clusters, persist_cluster_run) and its       *)
(* driver main.                                                            *)
(*                                                                         *)
(* Representation.  Python strings on which the code does character work   *)
(* are sequences of one-character strings.  A float column holds integers  *)
(* in half units (3.5 is 7): the source values are whole numbers, so a     *)
(* median is exact.  Standardised values, factor scores and centroids are  *)
(* fixed-point tenths; a silhouette is fixed-point thousandths.            *)
(***************************************************************************)
EXTENDS Integers, Sequences, FiniteSets, TLC

(***************************************************************************)
(* Characters and strings                                                  *)
(***************************************************************************)
LowerChars == <<"a", "b", "c", "d", "e", "f", "g", "h", "i", "j", "k", "l", "m", "n", "o", "p", "q", "r", "s", "t", "u", "v", "w", "x", "y", "z">>

UpperChars == <<"A", "B", "C", "D", "E", "F", "G", "H", "I", "J", "K", "L", "M", "N", "O", "P", "Q", "R", "S", "T", "U", "V", "W", "X", "Y", "Z">>

DigitChars == <<"0", "1", "2", "3", "4", "5", "6", "7", "8", "9">>

\* code-point order of the characters the model uses
Alphabet == <<" ", "-", ".">> \o DigitChars \o UpperChars \o <<"_">> \o LowerChars

Ord(c) == CHOOSE i \in 1..Len(Alphabet) : Alphabet[i] = c

IsLower(c) == \E i \in 1..Len(LowerChars) : LowerChars[i] = c

IsUpper(c) == \E i \in 1..Len(UpperChars) : UpperChars[i] = c

IsDigit(c) == \E i \in 1..Len(DigitChars) : DigitChars[i] = c

IsSpace(c) == c = " "

\* f as an explicit tuple (the same value; a function given by a rule is otherwise
\* re-evaluated at each application)
AsSeq(f) == f \o <<>>

\* str.upper, one character
UpperChar(c) == IF IsLower(c) THEN UpperChars[CHOOSE i \in 1..Len(LowerChars) : LowerChars[i] = c] ELSE c

\* U+0130, LATIN CAPITAL LETTER I WITH DOT ABOVE, and U+0307, COMBINING DOT
\* ABOVE: a letter whose lower-case form is two characters, and the mark
\* that is the second of them
CapitalIWithDot == "U+0130"

CombiningDot == "U+0307"

\* str.lower of one character: the characters it gives
LowerChar(c) ==
    IF c = CapitalIWithDot THEN <<"i", CombiningDot>>
    ELSE IF IsUpper(c) THEN <<LowerChars[CHOOSE i \in 1..Len(UpperChars) : UpperChars[i] = c]>>
    ELSE <<c>>

StrUpper(s) == AsSeq([i \in 1..Len(s) |-> UpperChar(s[i])])

RECURSIVE LStrip(_)
LStrip(s) == IF s # <<>> /\ IsSpace(Head(s)) THEN LStrip(Tail(s)) ELSE s

RECURSIVE RStrip(_)
RStrip(s) == IF s # <<>> /\ IsSpace(s[Len(s)]) THEN RStrip(SubSeq(s, 1, Len(s) - 1)) ELSE s

\* str.strip
StrStrip(s) == RStrip(LStrip(s))

StartsWith(s, prefix) == Len(s) >= Len(prefix) /\ SubSeq(s, 1, Len(prefix)) = prefix

\* s < t in Python's string order
RECURSIVE StrLess(_, _)
StrLess(s, t) ==
    IF t = <<>> THEN FALSE
    ELSE IF s = <<>> THEN TRUE
    ELSE IF Head(s) = Head(t) THEN StrLess(Tail(s), Tail(t))
    ELSE Ord(Head(s)) < Ord(Head(t))

S_mod_ == <<"m", "o", "d", "_">>

S_mod_bacen == <<"m", "o", "d", "_", "b", "a", "c", "e", "n">>

S_DESCONHECIDO == <<"D", "E", "S", "C", "O", "N", "H", "E", "C", "I", "D", "O">>

S_risco_inicial_score == <<"r", "i", "s", "c", "o", "_", "i", "n", "i", "c", "i", "a", "l", "_", "s", "c", "o", "r", "e">>

S_cob_garantia == <<"c", "o", "b", "_", "g", "a", "r", "a", "n", "t", "i", "a">>

S_atraso == <<"a", "t", "r", "a", "s", "o">>

S_valor_contrato == <<"v", "a", "l", "o", "r", "_", "c", "o", "n", "t", "r", "a", "t", "o">>

S_saldo_atual == <<"s", "a", "l", "d", "o", "_", "a", "t", "u", "a", "l">>

\* the columns of the query, in order
TARGET_COLUMNS == <<
    <<"c", "l", "i", "e", "n", "t", "e", "_", "i", "d">>,
    <<"c", "l", "i", "e", "n", "t", "e", "_", "n", "o", "m", "e">>,
    <<"c", "l", "i", "e", "n", "t", "e", "_", "p", "e", "r", "f", "i", "l">>,
    <<"a", "g", "e", "n", "c", "i", "a", "_", "n", "o", "m", "e">>,
    <<"c", "a", "r", "t", "e", "i", "r", "a", "_", "n", "o", "m", "e">>,
    <<"l", "i", "n", "h", "a">>,
    <<"r", "i", "s", "c", "o", "_", "i", "n", "i", "c", "i", "a", "l">>,
    S_cob_garantia,
    S_mod_bacen,
    S_atraso,
    S_valor_contrato,
    S_saldo_atual >>

(***************************************************************************)
(* Cell values.  A cell of the source table is NULL, a number or a string; *)
(* a cell of a numeric column after coercion is a number or NaN.           *)
(***************************************************************************)
Null == [t |-> "null", n |-> 0, s |-> <<>>]

NaN == [t |-> "nan", n |-> 0, s |-> <<>>]

Num(v) == [t |-> "num", n |-> v, s |-> <<>>]

Str(s) == [t |-> "str", n |-> 0, s |-> s]

IsNa(x) == x.t \in {"null", "nan"}

RECURSIVE ParseDigits(_, _)
ParseDigits(s, acc) ==
    IF s = <<>> THEN acc
    ELSE ParseDigits(Tail(s), 10 * acc + (Ord(Head(s)) - Ord("0")))

\* pd.to_numeric(errors="coerce") on one cell; the float is kept in half units
to_numeric(x) ==
    IF x.t = "num" THEN Num(2 * x.n)
    ELSE IF x.t = "str" /\ x.s # <<>> /\ \A i \in 1..Len(x.s) : IsDigit(x.s[i])
         THEN Num(2 * ParseDigits(x.s, 0))
    ELSE NaN

(***************************************************************************)
(* Sequence helpers                                                        *)
(***************************************************************************)
RECURSIVE SumBetween(_, _, _)
SumBetween(s, lo, hi) ==
    IF lo > hi THEN 0
    ELSE IF lo = hi THEN s[lo]
    ELSE LET mid == (lo + hi) \div 2
         IN SumBetween(s, lo, mid) + SumBetween(s, mid + 1, hi)

SumSeq(s) == LET t == AsSeq(s) IN SumBetween(t, 1, Len(t))

Range(s) == {s[i] : i \in 1..Len(s)}

\* the integers of s in ascending order: the i-th is the value with fewer than
\* i smaller entries and at least i entries not above it
SortInts(s) ==
    LET t == AsSeq(s)
        n == Len(t)
    IN AsSeq([i \in 1..n |->
                CHOOSE x \in Range(t) :
                    /\ Cardinality({k \in 1..n : t[k] < x}) < i
                    /\ i <= Cardinality({k \in 1..n : t[k] <= x})])

\* the distinct strings of s in ascending order
SortedUniqueStr(s) ==
    LET distinct == Range(s)
    IN AsSeq([i \in 1..Cardinality(distinct) |->
                CHOOSE x \in distinct : Cardinality({y \in distinct : StrLess(y, x)}) = i - 1])

\* the distinct integers of s in ascending order
SortedUniqueInts(s) ==
    LET distinct == Range(s)
    IN AsSeq([i \in 1..Cardinality(distinct) |->
                CHOOSE x \in distinct : Cardinality({y \in distinct : y < x}) = i - 1])

Max(a, b) == IF a >= b THEN a ELSE b

Min(a, b) == IF a <= b THEN a ELSE b

(***************************************************************************)
(* prepare_segment                                                         *)
(***************************************************************************)
RISK_ORDER == << <<"A", "A">>, <<"A">>, <<"B">>, <<"B", "B">>, <<"C">>, <<"C", "C">>,
                 <<"D">>, <<"D", "D">>, <<"E">>, <<"E", "E">>, <<"F">>, <<"G">> >>

\* a lookup that counts the levels from one
RISK_MAP_from_one(name) ==
    IF \E i \in 1..Len(RISK_ORDER) : RISK_ORDER[i] = name
    THEN Num(CHOOSE i \in 1..Len(RISK_ORDER) : RISK_ORDER[i] = name)
    ELSE NaN

\* RISK_MAP.get: the position of the name in RISK_ORDER, NaN when it has none
RISK_MAP(name) ==
    IF \E i \in 1..Len(RISK_ORDER) : RISK_ORDER[i] = name
    THEN Num((CHOOSE i \in 1..Len(RISK_ORDER) : RISK_ORDER[i] = name) - 1)
    ELSE NaN

\* Series.median: skips NaN; NaN when nothing is left
median(cells) ==
    LET present == SelectSeq(cells, LAMBDA x : ~IsNa(x))
        sorted == SortInts([i \in 1..Len(present) |-> present[i].n])
        n == Len(sorted)
    IN IF n = 0 THEN NaN
       ELSE IF n % 2 = 1 THEN Num(sorted[(n + 1) \div 2])
       ELSE Num((sorted[n \div 2] + sorted[n \div 2 + 1]) \div 2)

\* a fill with zero in place of the given value
fillna_zero(x, value) == IF IsNa(x) THEN Num(0) ELSE x

fillna(x, value) == IF IsNa(x) THEN value ELSE x

\* lines 86-92: the column assignments, row by row
CoerceRow(r) ==
    LET risco == IF r.risco_inicial.t = "str"
                 THEN Str(StrStrip(StrUpper(r.risco_inicial.s)))
                 ELSE NaN
    IN [cliente_id |-> r.cliente_id,
        cliente_nome |-> r.cliente_nome,
        cliente_perfil |-> r.cliente_perfil,
        agencia_nome |-> r.agencia_nome,
        carteira_nome |-> r.carteira_nome,
        linha |-> r.linha,
        risco_inicial |-> risco,
        risco_inicial_score |-> IF risco.t = "str" THEN RISK_MAP(risco.s) ELSE NaN,
        cob_garantia |-> to_numeric(r.cob_garantia),
        atraso |-> to_numeric(r.atraso),
        valor_contrato |-> to_numeric(r.valor_contrato),
        saldo_atual |-> to_numeric(r.saldo_atual),
        mod_bacen |-> StrUpper(IF r.mod_bacen.t = "str" THEN r.mod_bacen.s ELSE S_DESCONHECIDO)]

\* a dropna over all five numeric columns
HasAllDrivers(w) ==
    /\ ~IsNa(w.risco_inicial_score) /\ ~IsNa(w.cob_garantia) /\ ~IsNa(w.atraso)
    /\ ~IsNa(w.valor_contrato) /\ ~IsNa(w.saldo_atual)

\* line 94: dropna(subset=[risco_inicial_score, cob_garantia, atraso])
HasCoreDrivers(w) == ~IsNa(w.risco_inicial_score) /\ ~IsNa(w.cob_garantia) /\ ~IsNa(w.atraso)

\* pd.get_dummies(prefix="mod"): a column mod_<value> per distinct value, in sorted order
DummyColumns(work) ==
    LET cats == SortedUniqueStr([i \in 1..Len(work) |-> work[i].mod_bacen])
    IN AsSeq([i \in 1..Len(cats) |-> S_mod_ \o cats[i]])

\* The frame prepare_segment returns: its column names and its rows.  A row
\* keeps the cells by name; onehot holds the indicator columns.
prepare_segment(df) ==
    LET coerced == AsSeq([i \in 1..Len(df) |-> CoerceRow(df[i])])
        work == SelectSeq(coerced, HasCoreDrivers)
        baseCols == TARGET_COLUMNS \o <<S_risco_inicial_score>>
    IN IF work = <<>> THEN [columns |-> baseCols, rows |-> <<>>]
       ELSE LET valorMedian == median([i \in 1..Len(work) |-> work[i].valor_contrato])
                saldoMedian == median([i \in 1..Len(work) |-> work[i].saldo_atual])
                dummies == DummyColumns(work)
            IN [columns |-> baseCols \o dummies,
                rows |-> AsSeq([i \in 1..Len(work) |->
                    [cliente_id |-> work[i].cliente_id,
                     cliente_nome |-> work[i].cliente_nome,
                     cliente_perfil |-> work[i].cliente_perfil,
                     agencia_nome |-> work[i].agencia_nome,
                     carteira_nome |-> work[i].carteira_nome,
                     linha |-> work[i].linha,
                     risco_inicial |-> work[i].risco_inicial,
                     risco_inicial_score |-> work[i].risco_inicial_score.n,
                     cob_garantia |-> work[i].cob_garantia.n,
                     atraso |-> work[i].atraso.n,
                     valor_contrato |-> fillna(work[i].valor_contrato, valorMedian),
                     saldo_atual |-> fillna(work[i].saldo_atual, saldoMedian),
                     mod_bacen |-> work[i].mod_bacen,
                     onehot |-> AsSeq([j \in 1..Len(dummies) |->
                                  IF dummies[j] = S_mod_ \o work[i].mod_bacen THEN 1 ELSE 0])]])]

(***************************************************************************)
(* Fixed-point arithmetic                                                  *)
(***************************************************************************)
\* a / b rounded toward zero, b > 0
QuotTrunc(a, b) == IF a >= 0 THEN a \div b ELSE -((-a) \div b)

\* a / b rounded to the nearest integer, ties to the even one (b > 0)
RoundHalfEven(a, b) ==
    LET q == a \div b
        r == a % b
    IN IF 2 * r < b THEN q
       ELSE IF 2 * r > b THEN q + 1
       ELSE IF q % 2 = 0 THEN q ELSE q + 1

RECURSIVE SqrtSearch(_, _, _)
SqrtSearch(x, lo, hi) ==
    IF lo >= hi THEN lo
    ELSE LET mid == (lo + hi + 1) \div 2
         IN IF mid * mid <= x THEN SqrtSearch(x, mid, hi) ELSE SqrtSearch(x, lo, mid - 1)

\* floor of the square root
ISqrt(x) == SqrtSearch(x, 0, Min(x, 46340))

(***************************************************************************)
(* build_segment_outputs, lines 298-309: the feature columns               *)
(***************************************************************************)
NumericDrivers == {S_risco_inicial_score, S_cob_garantia, S_atraso, S_valor_contrato, S_saldo_atual}

\* the selection without the exclusion of the raw modality column
IsFeatureColumn_any_mod(col) == StartsWith(col, S_mod_) \/ col \in NumericDrivers

IsFeatureColumn(col) == (StartsWith(col, S_mod_) /\ col # S_mod_bacen) \/ col \in NumericDrivers

feature_cols(prepared) == SelectSeq(prepared.columns, IsFeatureColumn)

\* prepared[col] of one row, as a cell
Cell(prepared, row, col) ==
    IF col = S_risco_inicial_score THEN Num(row.risco_inicial_score)
    ELSE IF col = S_cob_garantia THEN Num(row.cob_garantia)
    ELSE IF col = S_atraso THEN Num(row.atraso)
    ELSE IF col = S_valor_contrato THEN row.valor_contrato
    ELSE IF col = S_saldo_atual THEN row.saldo_atual
    ELSE Num(row.onehot[(CHOOSE j \in 1..Len(prepared.columns) : prepared.columns[j] = col)
                        - (Len(TARGET_COLUMNS) + 1)])

\* prepared[feature_cols]: one sequence of cells per row
feature_frame(prepared) ==
    LET cols == feature_cols(prepared)
    IN AsSeq([i \in 1..Len(prepared.rows) |->
                AsSeq([j \in 1..Len(cols) |-> Cell(prepared, prepared.rows[i], cols[j])])])

(***************************************************************************)
(* choose_factor_components, run_factor_analysis                           *)
(***************************************************************************)
\* the count without the cap of 3
choose_factor_components_uncapped(n_samples, n_features) ==
    Max(1, Min(5, Min(n_features, n_samples - 1)))

choose_factor_components(n_samples, n_features) ==
    LET max_components == Max(1, Min(5, Min(n_features, n_samples - 1)))
    IN Min(3, max_components)

\* StandardScaler.fit_transform of one column (population variance; a zero
\* scale is replaced by 1), in tenths
ScaleColumn(xs) ==
    LET n == Len(xs)
        sum == SumSeq(xs)
        nnvar == n * SumSeq([i \in 1..n |-> xs[i] * xs[i]]) - sum * sum
        root == ISqrt(nnvar)
    IN AsSeq([i \in 1..n |->
          IF nnvar = 0 THEN 0
          ELSE QuotTrunc(10 * (n * xs[i] - sum), Max(1, root))])

\* The projections a fit may return.  The likelihood maximisation itself is not
\* computed: its result is one of a bounded family of loading matrices, and the
\* transform is the linear map of the standardised rows that the library applies.
MaxRotation == 1

FitChoices == 0..MaxRotation

Loading(fit, c, n_features) == ((c - 1 + fit) % n_features) + 1

\* A standardised column that is constant is zero throughout and adds nothing to
\* a factor score, whatever its loading: the scores are combinations of the
\* columns that vary (of any column, all zero, when none does)
LoadedColumns(scaled) ==
    LET all == AsSeq([j \in 1..Len(scaled) |-> j])
        varying == SelectSeq(all, LAMBDA j : \E i \in 1..Len(scaled[j]) : scaled[j][i] # 0)
    IN IF varying = <<>> THEN all ELSE varying

\* run_factor_analysis: a fault when a cell is NaN (the fit rejects it)
run_factor_analysis(frame, fit) ==
    LET n == Len(frame)
        nf == Len(frame[1])
        n_components == choose_factor_components(n, nf)
    IN IF \E i \in 1..n : \E j \in 1..nf : IsNa(frame[i][j])
       THEN [ok |-> FALSE, factors |-> <<>>, n_components |-> n_components]
       ELSE LET scaled == AsSeq([j \in 1..nf |-> ScaleColumn(AsSeq([i \in 1..n |-> frame[i][j].n]))])
                loaded == LoadedColumns(scaled)
            IN [ok |-> TRUE,
                factors |-> AsSeq([i \in 1..n |->
                                    AsSeq([c \in 1..n_components |->
                                             scaled[loaded[Loading(fit, c, Len(loaded))]][i]])]),
                n_components |-> n_components]

(***************************************************************************)
(* KMeans(n_clusters, n_init, random_state).fit_predict                    *)
(* Lloyd's iteration from seeded initial centres, the best of n_init       *)
(* restarts by inertia.  Labels are 0-based as in the library.             *)
(***************************************************************************)
RECURSIVE Dist2To(_, _, _)
Dist2To(a, b, d) == IF d = 0 THEN 0 ELSE (a[d] - b[d]) * (a[d] - b[d]) + Dist2To(a, b, d - 1)

\* the squared Euclidean distance
Dist2(a, b) == Dist2To(a, b, Len(a))

\* the t-th number of the pseudo-random stream of RandomState(seed)
Rand(seed, t) == ((((seed * 7919 + t * 104729) % 65537) * 75 + 74) % 65537)

\* the index (1-based) of the centre nearest to x, the first one on a tie;
\* best is the nearest of the centres before j, at the squared distance bestd
RECURSIVE NearestFrom(_, _, _, _, _)
NearestFrom(x, centers, j, best, bestd) ==
    IF j > Len(centers) THEN best
    ELSE LET d == Dist2(x, centers[j])
         IN IF d < bestd THEN NearestFrom(x, centers, j + 1, j, d)
            ELSE NearestFrom(x, centers, j + 1, best, bestd)

AssignLabels(X, centers) ==
    AsSeq([i \in 1..Len(X) |-> NearestFrom(X[i], centers, 2, 1, Dist2(X[i], centers[1])) - 1])

\* the mean of the points of each cluster; an empty cluster keeps its centre
UpdateCenters(X, labels, centers) ==
    AsSeq([j \in 1..Len(centers) |->
        LET members == SelectSeq([i \in 1..Len(X) |-> i], LAMBDA i : labels[i] = j - 1)
        IN IF members = <<>> THEN centers[j]
           ELSE AsSeq([d \in 1..Len(centers[j]) |->
                   QuotTrunc(SumSeq([m \in 1..Len(members) |-> X[members[m]][d]]), Len(members))])])

Inertia(X, labels, centers) == SumSeq([i \in 1..Len(X) |-> Dist2(X[i], centers[labels[i] + 1])])

\* iteration cap of one run (max_iter)
KMeansMaxIter == 8

RECURSIVE Lloyd(_, _, _, _)
Lloyd(X, centers, labels, iter) ==
    LET newLabels == AssignLabels(X, centers)
    IN IF newLabels = labels \/ iter >= KMeansMaxIter
       THEN [labels |-> newLabels, centers |-> centers, inertia |-> Inertia(X, newLabels, centers)]
       ELSE Lloyd(X, UpdateCenters(X, newLabels, centers), newLabels, iter + 1)

\* k distinct observations as the initial centres, drawn with the numbers
\* t+1 .. t+k of the stream
RECURSIVE DrawCenters(_, _, _, _, _, _)
DrawCenters(X, remaining, k, seed, t, acc) ==
    IF k = 0 THEN acc
    ELSE LET pos == (Rand(seed, t + 1) % Len(remaining)) + 1
         IN DrawCenters(X,
                        SubSeq(remaining, 1, pos - 1) \o SubSeq(remaining, pos + 1, Len(remaining)),
                        k - 1, seed, t + 1, Append(acc, X[remaining[pos]]))

\* sklearn's check_random_state: an integer seeds a generator of its own, None
\* stands for the generator of the process
check_random_state(seed, np_random) == IF seed \in Nat THEN seed ELSE np_random

\* n_init runs, each from k fresh draws of the one stream; the run of least
\* inertia is kept, the earliest one on a tie.  A run that starts from the
\* centres of an earlier run ends as that run did, so only the first run from
\* each start is computed
KMeans(X, n_clusters, n_init, random_state) ==
    LET all == AsSeq([i \in 1..Len(X) |-> i])
        starts == AsSeq([r \in 1..n_init |->
                     DrawCenters(X, all, n_clusters, random_state, n_clusters * (r - 1), <<>>)])
        firsts == SelectSeq(AsSeq([r \in 1..n_init |-> r]),
                            LAMBDA r : \A q \in 1..(r - 1) : starts[q] # starts[r])
        runs == AsSeq([f \in 1..Len(firsts) |-> Lloyd(X, starts[firsts[f]], <<>>, 0)])
        best == CHOOSE f \in 1..Len(firsts) :
                   /\ \A q \in 1..Len(firsts) : runs[f].inertia <= runs[q].inertia
                   /\ \A q \in 1..(f - 1) : runs[q].inertia > runs[f].inertia
    IN runs[best]

(***************************************************************************)
(* silhouette_score (Euclidean), in thousandths                            *)
(***************************************************************************)
\* the sum of the distances from point i to the points labelled c, and their number
ToCluster(X, labels, i, c) ==
    LET members == SelectSeq([j \in 1..Len(X) |-> j], LAMBDA j : labels[j] = c /\ j # i)
    IN [sum |-> SumSeq([m \in 1..Len(members) |-> ISqrt(Dist2(X[i], X[members[m]]))]),
        count |-> Len(members)]

\* of two mean distances sum/count, the smaller
RECURSIVE NearestOther(_, _)
NearestOther(cands, best) ==
    IF cands = <<>> THEN best
    ELSE NearestOther(Tail(cands),
                      IF Head(cands).sum * best.count < best.sum * Head(cands).count
                      THEN Head(cands) ELSE best)

SilhouetteSample(X, labels, i) ==
    LET own == ToCluster(X, labels, i, labels[i])
        others == SelectSeq(SortedUniqueInts(labels), LAMBDA c : c # labels[i])
        cands == AsSeq([o \in 1..Len(others) |-> ToCluster(X, labels, i, others[o])])
        near == NearestOther(Tail(cands), Head(cands))
        \* a = own.sum / own.count, b = near.sum / near.count
        an == own.sum * near.count
        bn == near.sum * own.count
    IN IF own.count = 0 \/ Max(an, bn) = 0 THEN 0
       ELSE QuotTrunc(1000 * (bn - an), Max(an, bn))

\* the sum of the sample coefficients in place of their mean
silhouette_score_sum(X, labels) == SumSeq([i \in 1..Len(X) |-> SilhouetteSample(X, labels, i)])

silhouette_score(X, labels) ==
    QuotTrunc(SumSeq([i \in 1..Len(X) |-> SilhouetteSample(X, labels, i)]), Len(X))

(***************************************************************************)
(* pick_cluster_count, cluster_factors                                     *)
(***************************************************************************)
\* a selector whose runs start from the generator of the process, one run per k
RECURSIVE PickLoopUnseeded(_, _, _, _, _, _)
PickLoopUnseeded(factors, k, max_k, best_k, best_score, np_random) ==
    IF k > max_k THEN [k |-> best_k, score |-> best_score]
    ELSE LET labels == KMeans(factors, k, 1, np_random).labels
         IN IF Cardinality(Range(labels)) < 2
            THEN PickLoopUnseeded(factors, k + 1, max_k, best_k, best_score, np_random)
            ELSE LET score == silhouette_score(factors, labels)
                 IN IF score > best_score
                    THEN PickLoopUnseeded(factors, k + 1, max_k, k, score, np_random)
                    ELSE PickLoopUnseeded(factors, k + 1, max_k, best_k, best_score, np_random)

pick_cluster_count_unseeded(factors, np_random) ==
    LET max_k == Min(6, Len(factors) - 1)
    IN IF max_k < 2 THEN [k |-> 1, score |-> 0]
       ELSE PickLoopUnseeded(factors, 2, max_k, 1, 0, np_random)

\* a partition into one cluster more than asked for
cluster_factors_one_more(factors, n_clusters, np_random) ==
    LET km == KMeans(factors, n_clusters + 1, 50, 42)
    IN [labels |-> km.labels, centers |-> km.centers, silhouette |-> 0]

RECURSIVE PickLoop(_, _, _, _, _, _)
PickLoop(factors, k, max_k, best_k, best_score, np_random) ==
    IF k > max_k THEN [k |-> best_k, score |-> best_score]
    ELSE LET labels == KMeans(factors, k, 20, check_random_state(42, np_random)).labels
         IN IF Cardinality(Range(labels)) < 2
            THEN PickLoop(factors, k + 1, max_k, best_k, best_score, np_random)
            ELSE LET score == silhouette_score(factors, labels)
                 IN IF score > best_score
                    THEN PickLoop(factors, k + 1, max_k, k, score, np_random)
                    ELSE PickLoop(factors, k + 1, max_k, best_k, best_score, np_random)

\* a search in which a later k with an equal score replaces the earlier one
RECURSIVE PickLoopLastTie(_, _, _, _, _, _)
PickLoopLastTie(factors, k, max_k, best_k, best_score, np_random) ==
    IF k > max_k THEN [k |-> best_k, score |-> best_score]
    ELSE LET labels == KMeans(factors, k, 20, check_random_state(42, np_random)).labels
         IN IF Cardinality(Range(labels)) < 2
            THEN PickLoopLastTie(factors, k + 1, max_k, best_k, best_score, np_random)
            ELSE LET score == silhouette_score(factors, labels)
                 IN IF score >= best_score /\ score > 0
                    THEN PickLoopLastTie(factors, k + 1, max_k, k, score, np_random)
                    ELSE PickLoopLastTie(factors, k + 1, max_k, best_k, best_score, np_random)

pick_cluster_count_last_tie(factors, np_random) ==
    LET max_k == Min(6, Len(factors) - 1)
    IN IF max_k < 2 THEN [k |-> 1, score |-> 0]
       ELSE PickLoopLastTie(factors, 2, max_k, 1, 0, np_random)

\* a search that starts from best_k = 2 instead of 1
pick_cluster_count_from_two(factors, np_random) ==
    LET max_k == Min(6, Len(factors) - 1)
    IN IF max_k < 2 THEN [k |-> 1, score |-> 0]
       ELSE PickLoop(factors, 2, max_k, 2, 0, np_random)

pick_cluster_count(factors, np_random) ==
    LET max_k == Min(6, Len(factors) - 1)
    IN IF max_k < 2 THEN [k |-> 1, score |-> 0]
       ELSE PickLoop(factors, 2, max_k, 1, 0, np_random)

\* factors.mean(axis=0, keepdims=True)
\* (of no rows: one centre without a defined entry)
MeanVector(factors) ==
    IF factors = <<>> THEN <<<<>>>>
    ELSE <<AsSeq([d \in 1..Len(factors[1]) |->
             QuotTrunc(SumSeq([i \in 1..Len(factors) |-> factors[i][d]]), Len(factors))])>>

\* a partition into one cluster centred on the first record
cluster_factors_first_center(factors, n_clusters, np_random) ==
    IF n_clusters <= 1
    THEN [labels |-> AsSeq([i \in 1..Len(factors) |-> 0]), centers |-> IF factors = <<>> THEN <<<<>>>> ELSE <<factors[1]>>, silhouette |-> 0]
    ELSE LET km == KMeans(factors, n_clusters, 50, check_random_state(42, np_random))
         IN [labels |-> km.labels, centers |-> km.centers, silhouette |-> 0]

cluster_factors(factors, n_clusters, np_random) ==
    IF n_clusters <= 1
    THEN [labels |-> AsSeq([i \in 1..Len(factors) |-> 0]), centers |-> MeanVector(factors), silhouette |-> 0]
    ELSE LET km == KMeans(factors, n_clusters, 50, check_random_state(42, np_random))
         IN [labels |-> km.labels,
             centers |-> km.centers,
             silhouette |-> IF Cardinality(Range(km.labels)) > 1
                            THEN silhouette_score(factors, km.labels) ELSE 0]

(***************************************************************************)
(* summarize_clusters                                                      *)
(***************************************************************************)
\* round(mean, 2) of numbers given as units/scale, in hundredths
RoundedMean(values, scale) == RoundHalfEven(100 * SumSeq(values), scale * Len(values))

\* the cells that are numbers (a mean skips NaN)
Present(cells) ==
    LET kept == SelectSeq(cells, LAMBDA x : ~IsNa(x))
    IN [i \in 1..Len(kept) |-> kept[i].n]

\* a summary that counts the clients of the whole frame in every row
summarize_frame_clients(rows, labels) ==
    LET ids == SortedUniqueInts(labels)
    IN AsSeq([c \in 1..Len(ids) |->
        [cluster |-> ids[c],
         total_clientes |-> Cardinality({rows[m].cliente_id : m \in 1..Len(rows)}),
         risco_inicial_medio |-> 0, cobertura_media |-> 0, atraso_medio |-> 0,
         valor_contrato_medio |-> 0, saldo_atual_medio |-> 0]])

\* one summary row per record instead of one per distinct label
summarize_per_record(rows, labels) ==
    AsSeq([i \in 1..Len(rows) |->
        [cluster |-> labels[i], total_clientes |-> 1,
         risco_inicial_medio |-> 0, cobertura_media |-> 0, atraso_medio |-> 0,
         valor_contrato_medio |-> 0, saldo_atual_medio |-> 0]])

\* the distinct labels in order of first appearance
FirstAppearance(labels) ==
    LET firsts == SelectSeq([i \in 1..Len(labels) |-> i],
                            LAMBDA i : \A q \in 1..(i - 1) : labels[q] # labels[i])
    IN AsSeq([f \in 1..Len(firsts) |-> labels[firsts[f]]])

summarize_unsorted(rows, labels) ==
    LET ids == FirstAppearance(labels)
    IN AsSeq([c \in 1..Len(ids) |->
        LET idxs == SelectSeq([i \in 1..Len(rows) |-> i], LAMBDA i : labels[i] = ids[c])
            n == Len(idxs)
        IN [cluster |-> ids[c],
            total_clientes |-> Cardinality({rows[idxs[m]].cliente_id : m \in 1..n}),
            risco_inicial_medio |-> RoundedMean([m \in 1..n |-> rows[idxs[m]].risco_inicial_score], 1),
            cobertura_media |-> RoundedMean([m \in 1..n |-> rows[idxs[m]].cob_garantia], 2),
            atraso_medio |-> RoundedMean([m \in 1..n |-> rows[idxs[m]].atraso], 2),
            valor_contrato_medio |-> RoundedMean(Present([m \in 1..n |-> rows[idxs[m]].valor_contrato]), 2),
            saldo_atual_medio |-> RoundedMean(Present([m \in 1..n |-> rows[idxs[m]].saldo_atual]), 2)]])

summarize_clusters(rows, labels) ==
    LET ids == SortedUniqueInts(labels)
    IN AsSeq([c \in 1..Len(ids) |->
        LET idxs == SelectSeq([i \in 1..Len(rows) |-> i], LAMBDA i : labels[i] = ids[c])
            cluster_df == AsSeq([m \in 1..Len(idxs) |-> rows[idxs[m]]])
            n == Len(cluster_df)
        IN [cluster |-> ids[c],
            total_clientes |-> Cardinality({cluster_df[m].cliente_id : m \in 1..n}),
            risco_inicial_medio |-> RoundedMean([m \in 1..n |-> cluster_df[m].risco_inicial_score], 1),
            cobertura_media |-> RoundedMean([m \in 1..n |-> cluster_df[m].cob_garantia], 2),
            atraso_medio |-> RoundedMean([m \in 1..n |-> cluster_df[m].atraso], 2),
            valor_contrato_medio |-> RoundedMean(Present([m \in 1..n |-> cluster_df[m].valor_contrato]), 2),
            saldo_atual_medio |-> RoundedMean(Present([m \in 1..n |-> cluster_df[m].saldo_atual]), 2)]])

(***************************************************************************)
(* slugify and the flat-file names                                         *)
(***************************************************************************)
\* str.isalnum of one character: letters and digits, not marks
IsAlnum(c) == IsLower(c) \/ IsUpper(c) \/ IsDigit(c) \/ c = CapitalIWithDot

\* "".join
RECURSIVE Join(_)
Join(parts) == IF parts = <<>> THEN <<>> ELSE Head(parts) \o Join(Tail(parts))

\* while "__" in slug: slug = slug.replace("__", "_")
RECURSIVE CollapseUnderscores(_)
CollapseUnderscores(s) ==
    IF Len(s) < 2 THEN s
    ELSE IF s[1] = "_" /\ s[2] = "_" THEN CollapseUnderscores(Tail(s))
    ELSE <<s[1]>> \o CollapseUnderscores(Tail(s))

RECURSIVE StripUnderscores(_)
StripUnderscores(s) ==
    IF s # <<>> /\ Head(s) = "_" THEN StripUnderscores(Tail(s))
    ELSE IF s # <<>> /\ s[Len(s)] = "_" THEN StripUnderscores(SubSeq(s, 1, Len(s) - 1))
    ELSE s

S_perfil == <<"p", "e", "r", "f", "i", "l">>

slugify(value) ==
    LET filtered == AsSeq([i \in 1..Len(value) |-> IF IsAlnum(value[i]) THEN LowerChar(value[i]) ELSE <<"_">>])
        slug == StripUnderscores(CollapseUnderscores(Join(filtered)))
    IN IF slug = <<>> THEN S_perfil ELSE slug

S_perfil_ == <<"p", "e", "r", "f", "i", "l", "_">>

S__clusters_csv == <<"_", "c", "l", "u", "s", "t", "e", "r", "s", ".", "c", "s", "v">>

S__cluster_summary_csv == <<"_", "c", "l", "u", "s", "t", "e", "r", "_", "s", "u", "m", "m", "a", "r", "y", ".", "c", "s", "v">>

S_clusters_por_agencia_csv == <<"c", "l", "u", "s", "t", "e", "r", "s", "_", "p", "o", "r", "_", "a", "g", "e", "n", "c", "i", "a", ".", "c", "s", "v">>

S_clusters_por_carteira_csv == <<"c", "l", "u", "s", "t", "e", "r", "s", "_", "p", "o", "r", "_", "c", "a", "r", "t", "e", "i", "r", "a", ".", "c", "s", "v">>

S_clusters_por_linha_csv == <<"c", "l", "u", "s", "t", "e", "r", "s", "_", "p", "o", "r", "_", "l", "i", "n", "h", "a", ".", "c", "s", "v">>

detailed_path(perfil) == S_perfil_ \o slugify(perfil) \o S__clusters_csv

summary_path(perfil) == S_perfil_ \o slugify(perfil) \o S__cluster_summary_csv

\* DataFrame.to_csv: the file is created or replaced
to_csv(dir, name, content) ==
    {f \in dir : f.name # name} \cup {[name |-> name, content |-> content]}

(***************************************************************************)
(* groupby and aggregate_views                                             *)
(***************************************************************************)
\* df.groupby("cliente_perfil"): the groups in ascending key order, each with
\* its rows in table order
groupby_perfil(df) ==
    LET keys == SortedUniqueStr(AsSeq([i \in 1..Len(df) |-> df[i].cliente_perfil]))
    IN AsSeq([g \in 1..Len(keys) |->
                [perfil |-> keys[g],
                 grupo |-> SelectSeq(df, LAMBDA r : r.cliente_perfil = keys[g])]])

Dimension(row, dimension) ==
    IF dimension = "agencia_nome" THEN row.agencia_nome
    ELSE IF dimension = "carteira_nome" THEN row.carteira_nome
    ELSE row.linha

\* (a, c) before (b, d) in the order of the group keys
KeyLess(a, c, b, d) == StrLess(a, b) \/ (a = b /\ c < d)

\* the distinct (value, cluster) keys of the rows in ascending order
SortedKeys(rows, dimension) ==
    LET distinct == {[value |-> Dimension(rows[i], dimension), cluster |-> rows[i].cluster] :
                        i \in 1..Len(rows)}
    IN AsSeq([i \in 1..Cardinality(distinct) |->
                CHOOSE x \in distinct :
                    Cardinality({y \in distinct : KeyLess(y.value, y.cluster, x.value, x.cluster)}) = i - 1])

\* sort_values(by="total_clientes", ascending=False) of rows given in key order
RECURSIVE InsertByCount(_, _)
InsertByCount(x, s) ==
    IF s = <<>> THEN <<x>>
    ELSE IF x.total_clientes >= Head(s).total_clientes THEN <<x>> \o s
    ELSE <<Head(s)>> \o InsertByCount(x, Tail(s))

RECURSIVE SortByCountDesc(_)
SortByCountDesc(s) == IF s = <<>> THEN <<>> ELSE InsertByCount(Head(s), SortByCountDesc(Tail(s)))

\* a rollup that counts the records of a pair, not its distinct clients
aggregate_views_size(consolidated, dimension) ==
    LET keys == SortedKeys(consolidated, dimension)
        view == AsSeq([g \in 1..Len(keys) |->
                  [value |-> keys[g].value,
                   cluster |-> keys[g].cluster,
                   total_clientes |->
                      Cardinality({j \in 1..Len(consolidated) :
                             /\ Dimension(consolidated[j], dimension) = keys[g].value
                             /\ consolidated[j].cluster = keys[g].cluster})]])
    IN SortByCountDesc(view)

aggregate_views(consolidated, dimension) ==
    LET keys == SortedKeys(consolidated, dimension)
        view == AsSeq([g \in 1..Len(keys) |->
                  [value |-> keys[g].value,
                   cluster |-> keys[g].cluster,
                   total_clientes |->
                      Cardinality({consolidated[i].cliente_id : i \in
                         {j \in 1..Len(consolidated) :
                             /\ Dimension(consolidated[j], dimension) = keys[g].value
                             /\ consolidated[j].cluster = keys[g].cluster}})]])
    IN SortByCountDesc(view)

(***************************************************************************)
(* The source tables the model is run on                                   *)
(***************************************************************************)
\* ensure_minimum_samples: the default threshold
threshold == 25

\* build_segment_outputs: the least number of rows left after cleaning
MinCleaned == 5

\* how far the raw and the cleaned row counts go beyond their thresholds
MaxExtraRaw == 1

MaxExtraClean == 1

ClientIds == <<"c1", "c2", "c3", "c4", "c5", "c6", "c7", "c8", "c9">>

PerfilA == <<"P", "F", " ", "1">>

PerfilB == <<"P", "J">>

Row(id, perfil, i, risco, cob, mod, atraso, valor, saldo) ==
    [cliente_id |-> id,
     cliente_nome |-> id,
     cliente_perfil |-> perfil,
     agencia_nome |-> IF i % 2 = 1 THEN <<"A", "g", "1">> ELSE <<"A", "g", "2">>,
     carteira_nome |-> <<"C", "1">>,
     linha |-> IF i % 3 = 0 THEN <<"L", "0">> ELSE <<"L", "1">>,
     risco_inicial |-> risco,
     cob_garantia |-> cob,
     mod_bacen |-> mod,
     atraso |-> atraso,
     valor_contrato |-> valor,
     saldo_atual |-> saldo]

\* a record the cleaning keeps.  Shape 1: two separated groups, a client with
\* contracts in both; 2: identical records; 3: a spread with missing cells;
\* 4: shape 1 without any contract value; 5: three groups
ValidRow(shape, i, perfil) ==
    IF shape = 5
    THEN Row(ClientIds[i], perfil, i, Str(RISK_ORDER[1 + 5 * (i % 3)]), Num(40 * (i % 3) + i),
             Str(<<"c", "a", "p">>), Num(15 * ((i + 1) % 3)), Num(9 * (i % 3) * (i % 3)), Num(i))
    ELSE IF shape = 2
    THEN Row(ClientIds[i], perfil, i, Str(<<" ", "a", "a", " ">>), Str(<<"1", "2">>), Null,
             Num(0), Num(5), Num(5))
    ELSE IF shape = 3
    THEN Row(IF i = 2 THEN ClientIds[1] ELSE ClientIds[i], perfil, i, Str(RISK_ORDER[i]), Num(i * i),
             IF i % 2 = 1 THEN Str(<<"b", "a", "c", "e", "n">>) ELSE Str(<<"f", "i", "n">>),
             Num(i), IF i % 2 = 0 THEN Null ELSE Num(3 * i),
             IF i = 1 THEN Str(<<"a", "b", "c">>) ELSE Num(i))
    ELSE IF i % 2 = 1
    THEN Row(ClientIds[((i - 1) % 3) + 1], perfil, i, Str(<<"A", "A">>), Num(30 + i),
             Str(<<"c", "a", "p">>), Num(0), IF shape = 4 THEN Null ELSE Num(10 + i), Num(8))
    ELSE Row(ClientIds[((i - 1) % 3) + 1], perfil, i, Str(<<"g">>), Num(2),
             Null, Num(20 + i), IF shape = 4 THEN Null ELSE Num(30), Num(28 + i))

\* a record the cleaning drops: no rating of the scale, or no coverage, or no delinquency
PadRow(j, perfil) ==
    Row("c9", perfil, j,
        IF j % 4 = 0 THEN Str(<<"Z", "Z">>) ELSE IF j % 4 = 3 THEN Null ELSE Str(<<"B">>),
        IF j % 4 = 1 THEN Null ELSE Num(7),
        Str(<<"c", "a", "p">>),
        IF j % 4 = 2 THEN Str(<<"x">>) ELSE Num(1),
        Num(4), Num(4))

Cohort(perfil, shape, nClean, nRaw) ==
    AsSeq([i \in 1..nRaw |->
             IF i <= nRaw - nClean THEN PadRow(i, perfil)
             ELSE ValidRow(shape, i - (nRaw - nClean), perfil)])

CohortsA ==
    {Cohort(PerfilA, shape, MinCleaned, threshold) : shape \in 1..5}
    \cup {Cohort(PerfilA, 5, nClean, threshold) :
        nClean \in (MinCleaned + 1)..(MinCleaned + MaxExtraClean)}
    \cup {Cohort(PerfilA, 1, nClean, nRaw) :
        nClean \in {MinCleaned - 1, MinCleaned},
        nRaw \in {threshold - 1} \cup ((threshold + 1)..(threshold + MaxExtraRaw))}
    \cup {Cohort(PerfilA, 1, MinCleaned - 1, threshold)}

SourceTables ==
    {a \o Cohort(PerfilB, 3, MinCleaned, threshold) : a \in CohortsA}
    \cup {Cohort(PerfilA, 2, MinCleaned, threshold) \o Cohort(PerfilB, 2, MinCleaned + 1, threshold)}
    \cup {Cohort(PerfilA, 1, nClean, threshold) \o Cohort(PerfilB, 3, MinCleaned, threshold - 1) :
            nClean \in {MinCleaned - 1, MinCleaned}}
    \cup {<<>>}

(***************************************************************************)
(* State                                                                   *)
(***************************************************************************)
\* the processes that may run main, and how often each may be started
Procs == {1, 2}

MaxInvocations == 2

\* the run identifiers uuid4 draws from
RunIds == 1..(2 * 2 * (MaxInvocations + 1))

VARIABLES
    source,            \* the table clientes_carteira
    fa_fit,            \* which projection the factor fit yields
    budget,            \* per process: the invocations of main left
    np_random,         \* per process: the state of the global generator
    pc,                \* per process: where it is in main / build_segment_outputs
    groups,            \* per process: the groups main has still to visit
    grupo,             \* per process: the cohort in work (perfil, df_segment)
    prepared,          \* per process: the frame of prepare_segment
    factors_payload,   \* per process: the result of run_factor_analysis
    picked,            \* per process: (k, search_silhouette)
    cluster_payload,   \* per process: the result of cluster_factors
    summary,           \* per process: the frame of summarize_clusters
    pending,           \* per process: run_id and the records persist_cluster_run built
    tx,                \* per process: the rows inserted in the open transaction
    consolidated_rows, \* per process: the results main collected
    db,                \* the committed rows of the three cluster_run tables, and
                       \* the order in which the writes became visible
    issued,            \* the identifiers uuid4 has returned
    output_dir,        \* the files of OUTPUT_DIR
    urandom,           \* the entropy the next interpreter seeds its generator with
    log                \* history of the admissions, selector calls, runs and faults

vars == <<source, fa_fit, budget, np_random, pc, groups, grupo, prepared, factors_payload,
          picked, cluster_payload, summary, pending, tx, consolidated_rows, db, issued,
          output_dir, urandom, log>>

locals == <<prepared, factors_payload, picked, cluster_payload, summary, pending>>

NoFrame == [columns |-> <<>>, rows |-> <<>>]

NoFactors == [ok |-> FALSE, factors |-> <<>>, n_components |-> 0]

NoPick == [k |-> 0, score |-> 0]

NoClusters == [labels |-> <<>>, centers |-> <<>>, silhouette |-> 0]

NoPending == [run_id |-> 0, run_row |-> <<>>, cliente_records |-> <<>>, summary_records |-> <<>>]

NoTx == [open |-> FALSE, cluster_run |-> <<>>, cluster_run_clientes |-> <<>>,
         cluster_run_resumo |-> <<>>, writes |-> <<>>]

NoGrupo == [perfil |-> <<>>, grupo |-> <<>>]

EmptyLog == [admission |-> {}, selector |-> {}, intended |-> {}, faults |-> {}, returned |-> {}]

InitWith(tables, fits, starts) ==
    /\ source \in tables
    /\ fa_fit \in fits
    /\ budget = starts
    /\ np_random = [p \in Procs |-> 0]
    /\ pc = [p \in Procs |-> "idle"]
    /\ groups = [p \in Procs |-> <<>>]
    /\ grupo = [p \in Procs |-> NoGrupo]
    /\ prepared = [p \in Procs |-> NoFrame]
    /\ factors_payload = [p \in Procs |-> NoFactors]
    /\ picked = [p \in Procs |-> NoPick]
    /\ cluster_payload = [p \in Procs |-> NoClusters]
    /\ summary = [p \in Procs |-> <<>>]
    /\ pending = [p \in Procs |-> NoPending]
    /\ tx = [p \in Procs |-> NoTx]
    /\ consolidated_rows = [p \in Procs |-> <<>>]
    /\ db = [cluster_run |-> <<>>, cluster_run_clientes |-> <<>>, cluster_run_resumo |-> <<>>,
             journal |-> <<>>]
    /\ issued = {}
    /\ output_dir = [detailed |-> {}, summary |-> {}, rollup |-> {}]
    /\ urandom = 1
    /\ log = EmptyLog

\* one process, started MaxInvocations times one after the other
Init == InitWith(SourceTables, FitChoices, [p \in Procs |-> IF p = 1 THEN MaxInvocations ELSE 0])

(***************************************************************************)
(* main                                                                    *)
(***************************************************************************)
\* a start of the program: a fresh interpreter, its global generator seeded
\* from the system's entropy; a program that ended with an exception is not
\* started again
StartMain(p) ==
    /\ pc[p] \in {"idle", "exit"}
    /\ budget[p] > 0
    /\ budget' = [budget EXCEPT ![p] = @ - 1]
    /\ np_random' = [np_random EXCEPT ![p] = urandom]
    /\ urandom' = urandom + 1
    /\ pc' = [pc EXCEPT ![p] = "load"]
    /\ UNCHANGED <<source, fa_fit, groups, grupo, locals, tx, consolidated_rows, db, issued,
                   output_dir, log>>

\* lines 366-371: load_source_dataframe, the empty check, the groupby
LoadSource(p) ==
    /\ pc[p] = "load"
    /\ IF source = <<>>
       THEN /\ pc' = [pc EXCEPT ![p] = "exit"]
            /\ UNCHANGED groups
       ELSE /\ groups' = [groups EXCEPT ![p] = groupby_perfil(source)]
            /\ pc' = [pc EXCEPT ![p] = "loop"]
    /\ consolidated_rows' = [consolidated_rows EXCEPT ![p] = <<>>]
    /\ UNCHANGED <<source, fa_fit, urandom, budget, np_random, grupo, locals, tx, db, issued, output_dir, log>>

\* line 372: the next group of the loop, or the end of the loop
NextGroup(p) ==
    /\ pc[p] = "loop"
    /\ IF groups[p] = <<>>
       THEN /\ pc' = [pc EXCEPT ![p] = "aggregate"]
            /\ UNCHANGED <<groups, grupo>>
       ELSE /\ grupo' = [grupo EXCEPT ![p] = Head(groups[p])]
            /\ groups' = [groups EXCEPT ![p] = Tail(@)]
            /\ pc' = [pc EXCEPT ![p] = "build"]
    /\ UNCHANGED <<source, fa_fit, urandom, budget, np_random, locals, tx, consolidated_rows, db, issued,
                   output_dir, log>>

(***************************************************************************)
(* build_segment_outputs                                                   *)
(***************************************************************************)
\* a check that lets every cohort pass
ensure_minimum_samples_any(df) == TRUE

\* a check with an exclusive boundary
ensure_minimum_samples_exclusive(df) == Len(df) > threshold

ensure_minimum_samples(df) == Len(df) >= threshold

\* history: the outcome of the checks on a cohort, with the number of its raw
\* rows and the number of them the cleaning keeps
Admission(p, admitted) ==
    log' = [log EXCEPT !.admission = @ \cup
               {[perfil |-> grupo[p].perfil, raw |-> Len(grupo[p].grupo),
                 cleaned |-> Len(prepare_segment(grupo[p].grupo).rows), admitted |-> admitted]}]

\* a skip that leaves the loop
SkipCohort_break(p) ==
    /\ pc' = [pc EXCEPT ![p] = "aggregate"]
    /\ Admission(p, FALSE)

\* the call returns None: main goes on with the next group
SkipCohort(p) ==
    /\ pc' = [pc EXCEPT ![p] = "loop"]
    /\ Admission(p, FALSE)

\* lines 291-293
CheckMinimum(p) ==
    /\ pc[p] = "build"
    /\ IF ~ensure_minimum_samples(grupo[p].grupo)
       THEN SkipCohort(p)
       ELSE /\ pc' = [pc EXCEPT ![p] = "prepare"]
            /\ UNCHANGED log
    /\ UNCHANGED <<source, fa_fit, urandom, budget, np_random, groups, grupo, locals, tx,
                   consolidated_rows, db, issued, output_dir>>

\* lines 294-297
Prepare(p) ==
    /\ pc[p] = "prepare"
    /\ LET frame == prepare_segment(grupo[p].grupo)
       IN IF frame.rows = <<>> \/ Len(frame.rows) < MinCleaned
          THEN /\ SkipCohort(p)
               /\ UNCHANGED prepared
          ELSE /\ prepared' = [prepared EXCEPT ![p] = frame]
               /\ pc' = [pc EXCEPT ![p] = "factor"]
               /\ Admission(p, TRUE)
    /\ UNCHANGED <<source, fa_fit, urandom, budget, np_random, groups, grupo, factors_payload, picked,
                   cluster_payload, summary, pending, tx, consolidated_rows, db, issued, output_dir>>

\* history: an exception ended the program while it worked on a cohort
Fault(p, at) ==
    log' = [log EXCEPT !.faults = @ \cup {[perfil |-> grupo[p].perfil, at |-> at]}]

\* the memory of a process that ends
Forget(p) ==
    /\ groups' = [groups EXCEPT ![p] = <<>>]
    /\ grupo' = [grupo EXCEPT ![p] = NoGrupo]
    /\ prepared' = [prepared EXCEPT ![p] = NoFrame]
    /\ factors_payload' = [factors_payload EXCEPT ![p] = NoFactors]
    /\ picked' = [picked EXCEPT ![p] = NoPick]
    /\ cluster_payload' = [cluster_payload EXCEPT ![p] = NoClusters]
    /\ summary' = [summary EXCEPT ![p] = <<>>]
    /\ pending' = [pending EXCEPT ![p] = NoPending]
    /\ consolidated_rows' = [consolidated_rows EXCEPT ![p] = <<>>]
    /\ np_random' = [np_random EXCEPT ![p] = 0]

\* lines 298-311; the fit raises on a frame with a NaN, which ends the program
FactorAnalysis(p) ==
    /\ pc[p] = "factor"
    /\ LET payload == run_factor_analysis(feature_frame(prepared[p]), fa_fit)
       IN IF payload.ok
          THEN /\ factors_payload' = [factors_payload EXCEPT ![p] = payload]
               /\ pc' = [pc EXCEPT ![p] = "pick"]
               /\ UNCHANGED <<np_random, groups, grupo, prepared, picked, cluster_payload,
                              summary, pending, consolidated_rows>>
               /\ UNCHANGED log
          ELSE /\ pc' = [pc EXCEPT ![p] = "fault"]
               /\ Fault(p, "factor")
               /\ Forget(p)
    /\ UNCHANGED <<source, fa_fit, urandom, budget, tx, db, issued, output_dir>>

\* line 312
PickClusterCount(p) ==
    /\ pc[p] = "pick"
    /\ LET result == pick_cluster_count(factors_payload[p].factors, np_random[p])
       IN /\ picked' = [picked EXCEPT ![p] = result]
          /\ log' = [log EXCEPT !.selector = @ \cup
                        {[factors |-> factors_payload[p].factors, k |-> result.k,
                          score |-> result.score, np_random |-> np_random[p],
                          earlier |-> Len(consolidated_rows[p])]}]
    /\ pc' = [pc EXCEPT ![p] = "cluster"]
    /\ UNCHANGED <<source, fa_fit, urandom, budget, np_random, groups, grupo, prepared, factors_payload,
                   cluster_payload, summary, pending, tx, consolidated_rows, db, issued, output_dir>>

\* prepared["cluster"] = labels; prepared[f"factor_{idx+1}"] = factors[:, idx]
WithClusters(rows, labels, factors) ==
    AsSeq([i \in 1..Len(rows) |-> [cluster |-> labels[i], factors |-> factors[i]] @@ rows[i]])

\* lines 313-317
ClusterFactors(p) ==
    /\ pc[p] = "cluster"
    /\ LET payload == cluster_factors(factors_payload[p].factors, picked[p].k, np_random[p])
       IN /\ cluster_payload' = [cluster_payload EXCEPT ![p] = payload]
          /\ prepared' = [prepared EXCEPT ![p].rows =
                             WithClusters(@, payload.labels, factors_payload[p].factors)]
    /\ pc' = [pc EXCEPT ![p] = "detailed"]
    /\ UNCHANGED <<source, fa_fit, urandom, budget, np_random, groups, grupo, factors_payload,
                   picked, summary, pending, tx, consolidated_rows, db, issued, output_dir, log>>

\* prepared[prepared_output_cols]
OutputRows(rows) ==
    AsSeq([i \in 1..Len(rows) |->
        [cliente_id |-> rows[i].cliente_id,
         cliente_nome |-> rows[i].cliente_nome,
         cliente_perfil |-> rows[i].cliente_perfil,
         agencia_nome |-> rows[i].agencia_nome,
         carteira_nome |-> rows[i].carteira_nome,
         linha |-> rows[i].linha,
         cluster |-> rows[i].cluster,
         factors |-> rows[i].factors]])

\* lines 318-330: the detailed file
WriteDetailed(p) ==
    /\ pc[p] = "detailed"
    /\ output_dir' = [output_dir EXCEPT !.detailed =
                         to_csv(@, detailed_path(grupo[p].perfil), OutputRows(prepared[p].rows))]
    /\ pc' = [pc EXCEPT ![p] = "summarize"]
    /\ UNCHANGED <<source, fa_fit, urandom, budget, np_random, groups, grupo, locals, tx,
                   consolidated_rows, db, issued, log>>

\* lines 331-339: the summary and its file
Summarize(p) ==
    /\ pc[p] = "summarize"
    /\ LET frame == summarize_clusters(prepared[p].rows, cluster_payload[p].labels)
       IN /\ summary' = [summary EXCEPT ![p] = frame]
          /\ output_dir' = [output_dir EXCEPT !.summary =
                               to_csv(@, summary_path(grupo[p].perfil), frame)]
    /\ pc' = [pc EXCEPT ![p] = "persist"]
    /\ UNCHANGED <<source, fa_fit, urandom, budget, np_random, groups, grupo, prepared, factors_payload,
                   picked, cluster_payload, pending, tx, consolidated_rows, db, issued, log>>

(***************************************************************************)
(* persist_cluster_run                                                     *)
(***************************************************************************)
\* an identifier generator that repeats itself
uuid4_repeating(used) == CHOOSE id \in RunIds : \A other \in RunIds : id <= other

\* uuid.uuid4(): an identifier no earlier call has returned
uuid4(used) == CHOOSE id \in RunIds \ used : \A other \in RunIds \ used : id <= other

\* per-client rows that all carry the label of the first record
ClienteRecords_first_label(run_id, rows) ==
    AsSeq([i \in 1..Len(rows) |->
        [run_id |-> run_id,
         cliente_id |-> rows[i].cliente_id,
         cliente_perfil |-> rows[i].cliente_perfil,
         agencia_nome |-> rows[i].agencia_nome,
         carteira_nome |-> rows[i].carteira_nome,
         linha |-> rows[i].linha,
         cluster |-> rows[1].cluster,
         risco_inicial |-> rows[i].risco_inicial,
         risco_inicial_score |-> rows[i].risco_inicial_score,
         factors |-> rows[i].factors]])

ClienteRecords(run_id, rows) ==
    AsSeq([i \in 1..Len(rows) |->
        [run_id |-> run_id,
         cliente_id |-> rows[i].cliente_id,
         cliente_perfil |-> rows[i].cliente_perfil,
         agencia_nome |-> rows[i].agencia_nome,
         carteira_nome |-> rows[i].carteira_nome,
         linha |-> rows[i].linha,
         cluster |-> rows[i].cluster,
         risco_inicial |-> rows[i].risco_inicial,
         risco_inicial_score |-> rows[i].risco_inicial_score,
         factors |-> rows[i].factors]])

SummaryRecords(run_id, frame) ==
    AsSeq([i \in 1..Len(frame) |->
        [run_id |-> run_id,
         cluster |-> frame[i].cluster,
         total_clientes |-> frame[i].total_clientes,
         risco_inicial_medio |-> frame[i].risco_inicial_medio,
         cobertura_media |-> frame[i].cobertura_media,
         atraso_medio |-> frame[i].atraso_medio,
         valor_contrato_medio |-> frame[i].valor_contrato_medio,
         saldo_atual_medio |-> frame[i].saldo_atual_medio]])

RunRow(run_id, perfil, metrics) ==
    [run_id |-> run_id,
     perfil |-> perfil,
     algoritmo |-> "factor_analysis_kmeans_v1",
     parametros |-> [feature_columns |-> metrics.feature_columns,
                     n_components |-> metrics.n_components,
                     n_clusters |-> metrics.n_clusters],
     metricas |-> [silhouette |-> metrics.silhouette,
                   search_silhouette |-> metrics.search_silhouette]]

\* lines 333-339
Metrics(p) ==
    [feature_columns |-> feature_cols(prepared[p]),
     n_components |-> factors_payload[p].n_components,
     n_clusters |-> picked[p].k,
     silhouette |-> cluster_payload[p].silhouette,
     search_silhouette |-> picked[p].score]

\* lines 194-270: the identifier of the run and the records of the three tables
BuildRecords(p) ==
    /\ pc[p] = "persist"
    /\ LET run_id == uuid4(issued)
           records == [run_id |-> run_id,
                       run_row |-> <<RunRow(run_id, grupo[p].perfil, Metrics(p))>>,
                       cliente_records |-> ClienteRecords(run_id, prepared[p].rows),
                       summary_records |-> SummaryRecords(run_id, summary[p])]
       IN /\ pending' = [pending EXCEPT ![p] = records]
          /\ issued' = issued \cup {run_id}
          /\ log' = [log EXCEPT !.intended = @ \cup {records}]
    /\ pc' = [pc EXCEPT ![p] = "begin"]
    /\ UNCHANGED <<source, fa_fit, urandom, budget, np_random, groups, grupo, prepared, factors_payload,
                   picked, cluster_payload, summary, tx, consolidated_rows, db, output_dir>>

\* line 272: engine.begin() opens a transaction
Begin(p) ==
    /\ pc[p] = "begin"
    /\ tx' = [tx EXCEPT ![p] = [NoTx EXCEPT !.open = TRUE]]
    /\ pc' = [pc EXCEPT ![p] = "insert_run"]
    /\ UNCHANGED <<source, fa_fit, urandom, budget, np_random, groups, grupo, locals, consolidated_rows,
                   db, issued, output_dir, log>>

\* an insert in autocommit mode: the rows are visible at once
ExecuteAutocommit(conn, database, table, rows) ==
    [conn |-> conn,
     database |-> [database EXCEPT ![table] = @ \o rows,
                                   !.journal = Append(@, [run_id |-> rows[1].run_id, table |-> table])]]

\* conn.execute(table.insert(), rows) inside the transaction: the rows are
\* the connection's own until the commit
Execute(conn, database, table, rows) ==
    [conn |-> [conn EXCEPT ![table] = @ \o rows,
                           !.writes = Append(@, [run_id |-> rows[1].run_id, table |-> table])],
     database |-> database]

\* one insert statement of persist_cluster_run, skipped for an empty list
Insert(p, at, table, rows, then) ==
    /\ pc[p] = at
    /\ IF rows = <<>>
       THEN UNCHANGED <<tx, db>>
       ELSE LET after == Execute(tx[p], db, table, rows)
            IN /\ tx' = [tx EXCEPT ![p] = after.conn]
               /\ db' = after.database
    /\ pc' = [pc EXCEPT ![p] = then]
    /\ UNCHANGED <<source, fa_fit, urandom, budget, np_random, groups, grupo, locals, consolidated_rows,
                   issued, output_dir, log>>

\* line 273
InsertRun(p) == Insert(p, "insert_run", "cluster_run", pending[p].run_row, "insert_clientes")

\* lines 274-275
InsertClientes(p) ==
    Insert(p, "insert_clientes", "cluster_run_clientes", pending[p].cliente_records, "insert_resumo")

\* lines 276-277
InsertResumo(p) ==
    Insert(p, "insert_resumo", "cluster_run_resumo", pending[p].summary_records, "commit")

\* the with block ends: the transaction commits, its rows become visible at once
Commit(p) ==
    /\ pc[p] = "commit"
    /\ db' = [cluster_run |-> db.cluster_run \o tx[p].cluster_run,
              cluster_run_clientes |-> db.cluster_run_clientes \o tx[p].cluster_run_clientes,
              cluster_run_resumo |-> db.cluster_run_resumo \o tx[p].cluster_run_resumo,
              journal |-> db.journal \o tx[p].writes]
    /\ tx' = [tx EXCEPT ![p] = NoTx]
    /\ pc' = [pc EXCEPT ![p] = "return"]
    /\ UNCHANGED <<source, fa_fit, urandom, budget, np_random, groups, grupo, locals, consolidated_rows,
                   issued, output_dir, log>>

\* an insert statement raises: the with block rolls the transaction back and
\* the exception ends the program
InsertFails(p) ==
    /\ pc[p] \in {"insert_run", "insert_clientes", "insert_resumo"}
    /\ Fault(p, IF tx[p].writes = <<>> THEN "insert" ELSE "rollback")
    /\ tx' = [tx EXCEPT ![p] = NoTx]
    /\ pc' = [pc EXCEPT ![p] = "fault"]
    /\ Forget(p)
    /\ UNCHANGED <<source, fa_fit, urandom, budget, db, issued, output_dir>>

\* lines 343-352 and 374-375: the frame goes back to main, which keeps it
Return(p) ==
    /\ pc[p] = "return"
    /\ consolidated_rows' = [consolidated_rows EXCEPT ![p] = Append(@, OutputRows(prepared[p].rows))]
    /\ log' = [log EXCEPT !.returned = @ \cup {[perfil |-> grupo[p].perfil,
                                                  run_id |-> pending[p].run_id]}]
    /\ prepared' = [prepared EXCEPT ![p] = NoFrame]
    /\ factors_payload' = [factors_payload EXCEPT ![p] = NoFactors]
    /\ picked' = [picked EXCEPT ![p] = NoPick]
    /\ cluster_payload' = [cluster_payload EXCEPT ![p] = NoClusters]
    /\ summary' = [summary EXCEPT ![p] = <<>>]
    /\ pending' = [pending EXCEPT ![p] = NoPending]
    /\ pc' = [pc EXCEPT ![p] = "loop"]
    /\ UNCHANGED <<source, fa_fit, urandom, budget, np_random, groups, grupo, tx, db, issued, output_dir>>

\* pd.concat(consolidated_rows, ignore_index=True)
RECURSIVE concat(_)
concat(frames) == IF frames = <<>> THEN <<>> ELSE Head(frames) \o concat(Tail(frames))

\* lines 376-383: the three rollup files, unless no cohort gave a result
Aggregate(p) ==
    /\ pc[p] = "aggregate"
    /\ IF consolidated_rows[p] = <<>>
       THEN UNCHANGED output_dir
       ELSE LET consolidated == concat(consolidated_rows[p])
            IN output_dir' = [output_dir EXCEPT !.rollup =
                   to_csv(to_csv(to_csv(@,
                       S_clusters_por_agencia_csv, aggregate_views(consolidated, "agencia_nome")),
                       S_clusters_por_carteira_csv, aggregate_views(consolidated, "carteira_nome")),
                       S_clusters_por_linha_csv, aggregate_views(consolidated, "linha"))]
    /\ pc' = [pc EXCEPT ![p] = "exit"]
    /\ Forget(p)
    /\ UNCHANGED <<source, fa_fit, urandom, budget, tx, db, issued, log>>

Next ==
    \E p \in Procs :
        \/ StartMain(p)
        \/ LoadSource(p)
        \/ NextGroup(p)
        \/ CheckMinimum(p)
        \/ Prepare(p)
        \/ FactorAnalysis(p)
        \/ PickClusterCount(p)
        \/ ClusterFactors(p)
        \/ WriteDetailed(p)
        \/ Summarize(p)
        \/ BuildRecords(p)
        \/ Begin(p)
        \/ InsertRun(p)
        \/ InsertClientes(p)
        \/ InsertResumo(p)
        \/ InsertFails(p)
        \/ Commit(p)
        \/ Return(p)
        \/ Aggregate(p)

Spec == Init /\ [][Next]_vars

\* a program that is running goes on to the next round of its loop
SpecLive == Spec /\ \A p \in Procs : WF_vars(NextGroup(p))

\* two processes started once each, at the same time, on a small table
ConcurrentTables ==
    {Cohort(PerfilB, 3, MinCleaned, threshold),
     Cohort(PerfilA, 3, MinCleaned, threshold) \o Cohort(PerfilB, 3, MinCleaned, threshold)}

InitConc == InitWith(ConcurrentTables, {0}, [p \in Procs |-> 1])

SpecConc == InitConc /\ [][Next]_vars

(***************************************************************************)
(* The scenario cohorts: records that share their drivers, and two groups  *)
(* set apart in rating and coverage                                        *)
(***************************************************************************)
PerfilS == <<"S">>

ScenarioClient(i) == "s" \o ToString(i)

\* 30 records with one rating (spelled in two ways), coverage, delinquency,
\* value and balance; clients: how many distinct clients hold them;
\* modalities: how many modality values occur
IdenticalCohort(clients, modalities) ==
    AsSeq([i \in 1..30 |->
        Row(ScenarioClient(((i - 1) % clients) + 1), PerfilS, i,
            IF i % 2 = 0 THEN Str(<<" ", "b", "b", " ">>) ELSE Str(<<"B", "B">>),
            IF i % 3 = 0 THEN Str(<<"1", "2">>) ELSE Num(12),
            IF i % modalities = 0 THEN Str(<<"c", "a", "p">>) ELSE Str(<<"f", "i", "n">>),
            Num(6), Num(14), Num(10))])

\* 100 records, every every-th one with rating index 8..11 and coverage below
\* 50, the others with rating index 0..2 and coverage above 150
SeparatedCohort(every) ==
    AsSeq([i \in 1..100 |->
        LET j == (i + 1) \div 2
        IN IF i % every # 0
           THEN Row(ScenarioClient(i), PerfilS, i, Str(RISK_ORDER[1 + (j % 3)]),
                    Num(151 + 10 * (j % 5)), Str(<<"c", "a", "p">>), Num(0), Num(20), Num(20))
           ELSE Row(ScenarioClient(i), PerfilS, i, Str(RISK_ORDER[9 + (j % 4)]),
                    Num(49 - 10 * (j % 5)), Str(<<"c", "a", "p">>), Num(0), Num(20), Num(20))])

ScenarioTables ==
    {IdenticalCohort(30, 1), IdenticalCohort(15, 1), IdenticalCohort(30, 2),
     SeparatedCohort(2), SeparatedCohort(3)}

InitScenario == InitWith(ScenarioTables, FitChoices, [p \in Procs |-> IF p = 1 THEN 1 ELSE 0])

SpecScenario == InitScenario /\ [][Next]_vars

(***************************************************************************)
(* choose_factor_components and pick_cluster_count on their own: feature   *)
(* tables of every small shape, factor matrices of every small size        *)
(***************************************************************************)
\* the largest numbers of rows and of feature columns of a feature table
MaxSamples == 8

MaxFeatures == 7

\* a frame of n_samples cleaned rows restricted to n_features feature columns
ShapedFrame(n_samples, n_features) ==
    LET frame == prepare_segment(Cohort(PerfilB, 3, n_samples, n_samples))
        cols == feature_cols(frame)
    IN [columns |-> SubSeq(cols, 1, Min(n_features, Len(cols))), rows |-> frame.rows]

FeatureTables == {ShapedFrame(n_samples, n_features) : n_samples \in 0..MaxSamples, n_features \in 0..MaxFeatures}

\* the largest number of rows of a factor matrix, and the number of patterns
MaxPoints == 8

MaxPattern == 5

\* the largest cluster count cluster_factors is called with
MaxK == 3

FactorMatrix(n, pattern) ==
    AsSeq([i \in 1..n |-> <<10 * ((i * pattern) % 4), 5 * ((i * i + pattern) % 3), i % 2>>])

\* three and four points at equal distances from each other, five points in
\* one place, and two places with three points each
EquidistantMatrices ==
    { << <<10, 0, 0>>, <<0, 10, 0>>, <<0, 0, 10>> >>,
      << <<10, 10, 10>>, <<10, -10, -10>>, <<-10, 10, -10>>, <<-10, -10, 10>> >>,
      << <<3, 3, 3>>, <<3, 3, 3>>, <<3, 3, 3>>, <<3, 3, 3>>, <<3, 3, 3>> >>,
      << <<0, 0, 0>>, <<9, 9, 0>>, <<0, 0, 0>>, <<9, 9, 0>>, <<0, 0, 0>>, <<9, 9, 0>> >> }

FactorMatrices ==
    {FactorMatrix(n, pattern) : n \in 0..MaxPoints, pattern \in 1..MaxPattern} \cup EquidistantMatrices

\* the longest profile tag, and the characters the tags are made of
MaxTagLen == 3

ProfileTags ==
    UNION {{AsSeq(t) : t \in [1..n -> {"P", "f", "1", " ", "_", CapitalIWithDot}]} : n \in 0..MaxTagLen}

\* a cohort of identical records with the tag, as it is when its one cluster
\* has been assigned
TaggedFrame(tag) ==
    LET frame == prepare_segment(Cohort(tag, 2, MinCleaned, MinCleaned))
        n == Len(frame.rows)
    IN [frame EXCEPT !.rows = WithClusters(@, AsSeq([i \in 1..n |-> 0]),
                                           AsSeq([i \in 1..n |-> <<0, 0, 0>>]))]

\* process 1 holds either a feature table that run_factor_analysis is about to
\* size, or a factor matrix that pick_cluster_count is about to search or
\* cluster_factors is about to partition, or a clustered cohort whose files
\* are about to be named
InitFunctions ==
    /\ source = <<>>
    /\ fa_fit = 0
    /\ budget = [p \in Procs |-> 0]
    /\ np_random = [p \in Procs |-> 0]
    /\ groups = [p \in Procs |-> <<>>]
    /\ \/ /\ pc = [p \in Procs |-> IF p = 1 THEN "detailed" ELSE "idle"]
          /\ \E tag \in ProfileTags :
                /\ grupo = [p \in Procs |-> IF p = 1
                               THEN [perfil |-> tag, grupo |-> Cohort(tag, 2, MinCleaned, MinCleaned)]
                               ELSE NoGrupo]
                /\ prepared = [p \in Procs |-> IF p = 1 THEN TaggedFrame(tag) ELSE NoFrame]
          /\ factors_payload = [p \in Procs |-> IF p = 1
                                   THEN [ok |-> TRUE, n_components |-> 3,
                                         factors |-> AsSeq([i \in 1..MinCleaned |-> <<0, 0, 0>>])]
                                   ELSE NoFactors]
          /\ picked = [p \in Procs |-> IF p = 1 THEN [k |-> 1, score |-> 0] ELSE NoPick]
          /\ cluster_payload = [p \in Procs |-> IF p = 1
                                   THEN [labels |-> AsSeq([i \in 1..MinCleaned |-> 0]),
                                         centers |-> <<<<0, 0, 0>>>>, silhouette |-> 0]
                                   ELSE NoClusters]
       \/ /\ pc = [p \in Procs |-> IF p = 1 THEN "factor" ELSE "idle"]
          /\ grupo = [p \in Procs |-> NoGrupo]
          /\ cluster_payload = [p \in Procs |-> NoClusters]
          /\ prepared \in {[p \in Procs |-> IF p = 1 THEN t ELSE NoFrame] : t \in FeatureTables}
          /\ factors_payload = [p \in Procs |-> NoFactors]
          /\ picked = [p \in Procs |-> NoPick]
       \/ /\ pc = [p \in Procs |-> IF p = 1 THEN "pick" ELSE "idle"]
          /\ grupo = [p \in Procs |-> NoGrupo]
          /\ cluster_payload = [p \in Procs |-> NoClusters]
          /\ prepared = [p \in Procs |-> NoFrame]
          /\ factors_payload \in
                {[p \in Procs |-> IF p = 1 THEN [ok |-> TRUE, factors |-> X, n_components |-> 3]
                                  ELSE NoFactors] : X \in FactorMatrices}
          /\ picked = [p \in Procs |-> NoPick]
       \/ /\ pc = [p \in Procs |-> IF p = 1 THEN "cluster" ELSE "idle"]
          /\ grupo = [p \in Procs |-> NoGrupo]
          /\ cluster_payload = [p \in Procs |-> NoClusters]
          /\ prepared = [p \in Procs |-> NoFrame]
          /\ \E X \in FactorMatrices : \E k \in 0..MaxK :
                /\ k <= Max(1, Len(X) - 1)
                /\ factors_payload = [p \in Procs |-> IF p = 1
                                         THEN [ok |-> TRUE, factors |-> X, n_components |-> 3]
                                         ELSE NoFactors]
                /\ picked = [p \in Procs |-> IF p = 1 THEN [k |-> k, score |-> 0] ELSE NoPick]
    /\ summary = [p \in Procs |-> <<>>]
    /\ pending = [p \in Procs |-> NoPending]
    /\ tx = [p \in Procs |-> NoTx]
    /\ consolidated_rows = [p \in Procs |-> <<>>]
    /\ db = [cluster_run |-> <<>>, cluster_run_clientes |-> <<>>, cluster_run_resumo |-> <<>>,
             journal |-> <<>>]
    /\ issued = {}
    /\ output_dir = [detailed |-> {}, summary |-> {}, rollup |-> {}]
    /\ urandom = 1
    /\ log = EmptyLog

\* run_factor_analysis, line 118: the number of components for the table
ChooseComponents(p) ==
    /\ pc[p] = "factor"
    /\ factors_payload' = [factors_payload EXCEPT ![p] =
            [ok |-> FALSE, factors |-> <<>>,
             n_components |-> choose_factor_components(Len(prepared[p].rows),
                                                       Len(feature_cols(prepared[p])))]]
    /\ pc' = [pc EXCEPT ![p] = "sized"]
    /\ UNCHANGED <<source, fa_fit, urandom, budget, np_random, groups, grupo, prepared, picked,
                   cluster_payload, summary, pending, tx, consolidated_rows, db, issued, output_dir, log>>

NextFunctions ==
    \E p \in Procs :
        \/ ChooseComponents(p)
        \/ PickClusterCount(p)
        \/ ClusterFactors(p)
        \/ prepared[p] # NoFrame /\ WriteDetailed(p)
        \/ prepared[p] # NoFrame /\ Summarize(p)

SpecFunctions == InitFunctions /\ [][NextFunctions]_vars

(***************************************************************************)
(* Properties                                                              *)
(***************************************************************************)
\* the rows of a table that carry a run identifier
RowsOf(table, run_id) == SelectSeq(table, LAMBDA r : r.run_id = run_id)

Headers == Range(db.cluster_run)

\* the profile tags of the source table and the number of raw rows of each
Perfis == {source[i].cliente_perfil : i \in 1..Len(source)}

RawCount(perfil) == Len(SelectSeq(source, LAMBDA r : r.cliente_perfil = perfil))

\* nothing of a profile has been persisted, written to a file or returned
NothingProduced(perfil) ==
    /\ \A h \in Headers : h.perfil # perfil
    /\ \A c \in Range(db.cluster_run_clientes) : c.cliente_perfil # perfil
    /\ \A f \in output_dir.detailed : f.name # detailed_path(perfil)
    /\ \A f \in output_dir.summary : f.name # summary_path(perfil)
    /\ \A r \in log.returned : r.perfil # perfil
    /\ \A p \in Procs : grupo[p].perfil = perfil => ~tx[p].open /\ pending[p] = NoPending

\* C1: every per-client row of a persisted run carries a label l with
\* 0 <= l < k, k being the n_clusters stored in the header of the same run
C1_LabelsBelowK ==
    \A h \in Headers : \A c \in Range(db.cluster_run_clientes) :
        c.run_id = h.run_id => c.cluster \in 0..(h.parametros.n_clusters - 1)

\* a run of three clusters is stored, with a record in the last of them
C1_Witness ==
    \E h \in Headers :
        /\ h.parametros.n_clusters = 3
        /\ \E c \in Range(db.cluster_run_clientes) : c.run_id = h.run_id /\ c.cluster = 2

\* C2: a persisted run has as many summary rows as there are distinct labels
\* among its per-client rows
C2_SummaryRowPerLabel ==
    \A h \in Headers :
        Len(RowsOf(db.cluster_run_resumo, h.run_id))
            = Cardinality({c.cluster : c \in Range(RowsOf(db.cluster_run_clientes, h.run_id))})

\* a run of several records is stored with exactly two summary rows
C2_Witness ==
    \E h \in Headers :
        /\ Len(RowsOf(db.cluster_run_resumo, h.run_id)) = 2
        /\ Len(RowsOf(db.cluster_run_clientes, h.run_id)) > 2

\* the clients of the records of a frame, and of those with a label
Clients(rows) == {rows[i].cliente_id : i \in 1..Len(rows)}

ClientsIn(rows, cluster) == {rows[i].cliente_id : i \in {j \in 1..Len(rows) : rows[j].cluster = cluster}}

TotalClientes(frame) == SumSeq([i \in 1..Len(frame) |-> frame[i].total_clientes])

\* a client of the frame has records in two clusters
Straddles(rows) ==
    \E i, j \in 1..Len(rows) : rows[i].cliente_id = rows[j].cliente_id /\ rows[i].cluster # rows[j].cluster

\* C3 as stated: the total_clientes of a summary add up to the number of
\* distinct clients of the retained records
C3_SumIsDistinctClients ==
    \A p \in Procs :
        pc[p] = "persist" => TotalClientes(summary[p]) = Cardinality(Clients(prepared[p].rows))

\* C3, amended: each row counts the distinct clients of its own cluster, so
\* the counts add up to at least the number of distinct clients, and to
\* exactly that number when no client has records in two clusters
C3_SumCountsClientsPerCluster ==
    \A p \in Procs :
        pc[p] = "persist" =>
            /\ \A i \in 1..Len(summary[p]) :
                 summary[p][i].total_clientes
                    = Cardinality(ClientsIn(prepared[p].rows, summary[p][i].cluster))
            /\ TotalClientes(summary[p]) >= Cardinality(Clients(prepared[p].rows))
            /\ ~Straddles(prepared[p].rows)
                 => TotalClientes(summary[p]) = Cardinality(Clients(prepared[p].rows))

\* a summary of a cohort in which a client has records in two clusters
C3_Witness ==
    \E p \in Procs :
        /\ pc[p] = "persist"
        /\ Straddles(prepared[p].rows)
        /\ TotalClientes(summary[p]) > Cardinality(Clients(prepared[p].rows))

\* C4: of a cohort with fewer than 25 raw records nothing is returned,
\* persisted or written to a file, however often the program has run
C4_SmallCohortLeavesNothing ==
    \A perfil \in Perfis : RawCount(perfil) < threshold => NothingProduced(perfil)

\* the program has run twice on a table with a cohort of 24 raw records, five
\* of which the cleaning keeps, and the other cohort was persisted both times
C4_Witness ==
    /\ \E e \in log.admission : e.raw = threshold - 1 /\ e.cleaned >= MinCleaned /\ ~e.admitted
    /\ budget[1] = 0 /\ pc[1] = "exit"
    /\ Len(db.cluster_run) = 2

\* a profile has its two files and a stored run
Produced(perfil) ==
    /\ \E h \in Headers : h.perfil = perfil
    /\ \E f \in output_dir.detailed : f.name = detailed_path(perfil)
    /\ \E f \in output_dir.summary : f.name = summary_path(perfil)

\* a process is at work on the cohort of a profile
InWork(perfil) ==
    \E p \in Procs :
        grupo[p].perfil = perfil /\ pc[p] \notin {"idle", "loop", "aggregate", "exit", "fault"}

C6_RunVisibleWholeOrNot ==
    /\ \A r \in log.intended :
         \/ /\ RowsOf(db.cluster_run, r.run_id) = <<>>
            /\ RowsOf(db.cluster_run_clientes, r.run_id) = <<>>
            /\ RowsOf(db.cluster_run_resumo, r.run_id) = <<>>
         \/ /\ RowsOf(db.cluster_run, r.run_id) = r.run_row
            /\ RowsOf(db.cluster_run_clientes, r.run_id) = r.cliente_records
            /\ RowsOf(db.cluster_run_resumo, r.run_id) = r.summary_records
    /\ \A row \in Range(db.cluster_run_clientes) \cup Range(db.cluster_run_resumo) :
         \E r \in log.intended : r.run_id = row.run_id

\* an insert has failed after rows of the run had been inserted, and
\* another run is stored
C6_Witness ==
    /\ \E f \in log.faults : f.at = "rollback"
    /\ db.cluster_run # <<>>
    /\ \E r \in log.intended : RowsOf(db.cluster_run, r.run_id) = <<>>

\* C7: the writes of a run become visible together, never between the writes
\* of another run, and every visible row belongs to the run whose identifier
\* it carries
C7_NoInterleavedRuns ==
    /\ \A i, j \in 1..Len(db.journal) :
         (i < j /\ db.journal[i].run_id = db.journal[j].run_id)
            => \A m \in i..j : db.journal[m].run_id = db.journal[i].run_id
    /\ \A c \in Range(db.cluster_run_clientes) :
         \E r \in log.intended : r.run_id = c.run_id /\ c \in Range(r.cliente_records)
    /\ \A c \in Range(db.cluster_run_resumo) :
         \E r \in log.intended : r.run_id = c.run_id /\ c \in Range(r.summary_records)
    /\ \A h \in Headers : \A c \in Range(db.cluster_run_clientes) :
         c.run_id = h.run_id => c.cliente_perfil = h.perfil

\* two processes are inside their transactions at once, for different
\* profiles, each with rows inserted
C7_Witness ==
    /\ tx[1].cluster_run_clientes # <<>>
    /\ tx[2].cluster_run_clientes # <<>>
    /\ tx[1].cluster_run[1].perfil # tx[2].cluster_run[1].perfil

\* the first table is a prefix of the second
IsPrefix(old, new) == Len(old) <= Len(new) /\ SubSeq(new, 1, Len(old)) = old

\* C8: the store only grows; a step adds at most one header, whose
\* identifier no stored row carries yet, and leaves every earlier row as it
\* was; the commit of persist_cluster_run adds exactly one header
C8_StoreOnlyGrows ==
    [][/\ IsPrefix(db.cluster_run, db'.cluster_run)
       /\ IsPrefix(db.cluster_run_clientes, db'.cluster_run_clientes)
       /\ IsPrefix(db.cluster_run_resumo, db'.cluster_run_resumo)
       /\ Len(db'.cluster_run) <= Len(db.cluster_run) + 1
       /\ Len(db'.cluster_run) = Len(db.cluster_run) + 1
            => \A row \in Range(db.cluster_run) \cup Range(db.cluster_run_clientes)
                           \cup Range(db.cluster_run_resumo) :
                  row.run_id # db'.cluster_run[Len(db'.cluster_run)].run_id
       /\ \A p \in Procs :
            (pc[p] = "commit" /\ pc'[p] = "return")
               => Len(db'.cluster_run) = Len(db.cluster_run) + 1]_vars

\* two runs of the same profile are stored, under different identifiers
C8_Witness ==
    \E i, j \in 1..Len(db.cluster_run) :
        /\ i < j
        /\ db.cluster_run[i].perfil = db.cluster_run[j].perfil
        /\ db.cluster_run[i].run_id # db.cluster_run[j].run_id

\* C9: the two silhouettes of a stored run lie in [-1, 1] (in thousandths),
\* and both are 0 when the run has one cluster
C9_SilhouetteRange ==
    \A h \in Headers :
        /\ h.metricas.silhouette \in (-1000)..1000
        /\ h.metricas.search_silhouette \in (-1000)..1000
        /\ h.parametros.n_clusters = 1
             => h.metricas.silhouette = 0 /\ h.metricas.search_silhouette = 0

\* a run of one cluster and a run of several clusters with positive
\* silhouettes are stored
C9_Witness ==
    /\ \E h \in Headers : h.parametros.n_clusters = 1
    /\ \E h \in Headers :
         /\ h.parametros.n_clusters > 1
         /\ h.metricas.silhouette > 0
         /\ h.metricas.search_silhouette > 0

\* C10: two calls of pick_cluster_count on the same factor matrix have given
\* the same k and the same score, whatever the state of the generator of
\* the process and however many cohorts came before
C10_SelectorDeterministic ==
    \A a, b \in log.selector : a.factors = b.factors => a.k = b.k /\ a.score = b.score

\* the selector has been called on one factor matrix in two processes with
\* different generators, after different numbers of earlier cohorts, and
\* has chosen several clusters
C10_Witness ==
    \E a, b \in log.selector :
        /\ a.factors = b.factors
        /\ a.np_random # b.np_random
        /\ a.earlier # b.earlier
        /\ a.k > 1

\* C11: the rows summarize_clusters returns are in strictly ascending order of
\* cluster label, so no label occurs twice; this holds of the frame it hands on
\* and of the heading rows stored for a run.
C11_SummaryAscending ==
    /\ \A p \in Procs : \A i \in 1..(Len(summary[p]) - 1) :
          summary[p][i].cluster < summary[p][i + 1].cluster
    /\ \A i, j \in 1..Len(db.cluster_run_resumo) :
          (i < j /\ db.cluster_run_resumo[i].run_id = db.cluster_run_resumo[j].run_id)
              => db.cluster_run_resumo[i].cluster < db.cluster_run_resumo[j].cluster

\* a summary of three clusters whose labels first appear out of order in the frame
C11_Witness ==
    \E p \in Procs :
        /\ pc[p] = "persist"
        /\ Len(summary[p]) = 3
        /\ cluster_payload[p].labels[1] # 0
        /\ FirstAppearance(cluster_payload[p].labels) # SortedUniqueInts(cluster_payload[p].labels)

\* the records of a cohort all have the same rating (after upper-casing and
\* trimming), coverage, delinquency, contract value and balance, none missing
SameDrivers(df) ==
    \A i \in 1..Len(df) :
        LET a == CoerceRow(df[1])
            b == CoerceRow(df[i])
        IN /\ HasCoreDrivers(a) /\ ~IsNa(a.valor_contrato) /\ ~IsNa(a.saldo_atual)
           /\ b.risco_inicial_score = a.risco_inicial_score
           /\ b.cob_garantia = a.cob_garantia
           /\ b.atraso = a.atraso
           /\ b.valor_contrato = a.valor_contrato
           /\ b.saldo_atual = a.saldo_atual

SameModality(df) == \A i \in 1..Len(df) : CoerceRow(df[i]).mod_bacen = CoerceRow(df[1]).mod_bacen

\* what the pipeline has made of the cohort of p once its summary exists: all
\* rows kept, k = 1, every label 0, one summary row with the given client
\* count and the shared values as its means (in hundredths)
OneClusterOf(p, clients) ==
    LET df == grupo[p].grupo
        shared == CoerceRow(df[1])
    IN /\ Len(prepared[p].rows) = Len(df)
       /\ picked[p].k = 1
       /\ \A i \in 1..Len(df) : cluster_payload[p].labels[i] = 0
       /\ Len(summary[p]) = 1
       /\ summary[p][1].cluster = 0
       /\ summary[p][1].total_clientes = clients
       /\ summary[p][1].risco_inicial_medio = 100 * shared.risco_inicial_score.n
       /\ summary[p][1].cobertura_media = 50 * shared.cob_garantia.n
       /\ summary[p][1].atraso_medio = 50 * shared.atraso.n
       /\ summary[p][1].valor_contrato_medio = 50 * shared.valor_contrato.n
       /\ summary[p][1].saldo_atual_medio = 50 * shared.saldo_atual.n

\* C12 as stated: a cohort of 30 records with the same rating, coverage,
\* delinquency, value and balance keeps its 30 rows, gets k = 1 and label 0
\* throughout, and one summary row with client count 30 and the shared values
\* as means.
C12_IdenticalCohortOneClusterOf30 ==
    \A p \in Procs :
        (pc[p] = "persist" /\ Len(grupo[p].grupo) = 30 /\ SameDrivers(grupo[p].grupo))
            => OneClusterOf(p, 30)

\* C12, amended: the same when the 30 records also share their modality, the
\* client count being the number of distinct clients among them (30 when
\* every record has a client of its own).
C12_IdenticalCohortOneCluster ==
    \A p \in Procs :
        (/\ pc[p] = "persist"
         /\ Len(grupo[p].grupo) = 30
         /\ SameDrivers(grupo[p].grupo)
         /\ SameModality(grupo[p].grupo))
            => OneClusterOf(p, Cardinality({grupo[p].grupo[i].cliente_id : i \in 1..30}))

\* the summary of 30 identical records of 30 clients has been computed
C12_Witness ==
    \E p \in Procs :
        /\ pc[p] = "persist"
        /\ Len(grupo[p].grupo) = 30
        /\ SameDrivers(grupo[p].grupo)
        /\ SameModality(grupo[p].grupo)
        /\ Cardinality({grupo[p].grupo[i].cliente_id : i \in 1..30}) = 30
        /\ summary[p][1].total_clientes = 30
        /\ summary[p][1].cobertura_media = 1200

\* record i of the cohort lies in the group of low rating index (0..2) and
\* high coverage (above 150), or in the group of high rating index (8..11)
\* and low coverage (below 50); the coverage is held in half units
InLowRiskGroup(df, i) ==
    LET r == CoerceRow(df[i])
    IN HasCoreDrivers(r) /\ r.risco_inicial_score.n <= 2 /\ r.cob_garantia.n > 2 * 150

InHighRiskGroup(df, i) ==
    LET r == CoerceRow(df[i])
    IN HasCoreDrivers(r) /\ r.risco_inicial_score.n >= 8 /\ r.cob_garantia.n < 2 * 50

\* 100 records in the two groups, which differ in nothing else
TwoSeparatedGroups(df) ==
    /\ Len(df) = 100
    /\ \A i \in 1..Len(df) : InLowRiskGroup(df, i) \/ InHighRiskGroup(df, i)
    /\ \E i \in 1..Len(df) : InLowRiskGroup(df, i)
    /\ \E i \in 1..Len(df) : InHighRiskGroup(df, i)
    /\ \A i \in 1..Len(df) :
          /\ CoerceRow(df[i]).atraso = CoerceRow(df[1]).atraso
          /\ CoerceRow(df[i]).valor_contrato = CoerceRow(df[1]).valor_contrato
          /\ CoerceRow(df[i]).saldo_atual = CoerceRow(df[1]).saldo_atual
          /\ CoerceRow(df[i]).mod_bacen = CoerceRow(df[1]).mod_bacen

C14_FaultLeavesNothing ==
    \A f \in log.faults :
        (\A r \in log.returned : r.perfil # f.perfil) => NothingProduced(f.perfil)

\* the modality values of the records of a cohort that the cleaning keeps, as
\* the indicator columns are named after them: upper-cased, a missing one
\* replaced by the sentinel
KeptModalities(df) ==
    {StrUpper(IF df[i].mod_bacen.t = "str" THEN df[i].mod_bacen.s ELSE S_DESCONHECIDO) :
        i \in {j \in 1..Len(df) : HasCoreDrivers(CoerceRow(df[j]))}}

\* C15: the feature column list handed to the factor extraction consists of
\* exactly the five numeric drivers and one indicator column per modality
\* value of the cohort, each once, and never contains the raw column
\* mod_bacen, whatever the modality values are.
C15_FeatureColumns ==
    \A p \in Procs :
        pc[p] = "factor" =>
            LET cols == feature_cols(prepared[p])
                modalities == KeptModalities(grupo[p].grupo)
            IN /\ Range(cols) = NumericDrivers \cup {S_mod_ \o v : v \in modalities}
               /\ Len(cols) = 5 + Cardinality(modalities)
               /\ \A i \in 1..Len(cols) : cols[i] # S_mod_bacen
               /\ \A i \in 1..Len(prepared[p].rows) : Len(feature_frame(prepared[p])[i]) = Len(cols)

\* a cohort with two modality values, one spelled bacen, is about to be fitted
C15_Witness ==
    \E p \in Procs :
        /\ pc[p] = "factor"
        /\ \E i \in 1..Len(grupo[p].grupo) : grupo[p].grupo[i].mod_bacen = Str(<<"b", "a", "c", "e", "n">>)
        /\ \E i \in 1..Len(feature_cols(prepared[p])) :
              feature_cols(prepared[p])[i] = <<"m", "o", "d", "_", "B", "A", "C", "E", "N">>
        /\ Cardinality(KeptModalities(grupo[p].grupo)) = 2

\* C16: every row of a frame prepare_segment has returned has a contract value
\* and an outstanding balance that are not missing; where the coerced value
\* of the record was missing, the row has the median of its column over the
\* rows of the cohort that were kept.
C16_ValueAndBalanceDefined ==
    \A p \in Procs :
        LET rows == prepared[p].rows
            kept == SelectSeq(AsSeq([i \in 1..Len(grupo[p].grupo) |-> CoerceRow(grupo[p].grupo[i])]),
                              HasCoreDrivers)
        IN \A i \in 1..Len(rows) :
              /\ ~IsNa(rows[i].valor_contrato)
              /\ ~IsNa(rows[i].saldo_atual)
              /\ IsNa(kept[i].valor_contrato) =>
                    rows[i].valor_contrato = median([j \in 1..Len(kept) |-> kept[j].valor_contrato])
              /\ IsNa(kept[i].saldo_atual) =>
                    rows[i].saldo_atual = median([j \in 1..Len(kept) |-> kept[j].saldo_atual])

\* the rating of the record, upper-cased and trimmed, is a level of the scale,
\* and its coverage and its delinquency coerce to numbers
Retainable(r) ==
    /\ r.risco_inicial.t = "str"
    /\ \E l \in 1..Len(RISK_ORDER) : RISK_ORDER[l] = StrStrip(StrUpper(r.risco_inicial.s))
    /\ ~IsNa(to_numeric(r.cob_garantia))
    /\ ~IsNa(to_numeric(r.atraso))

\* C17: prepare_segment returns one row for each record of the cohort whose
\* normalised rating is a level of the scale and whose coverage and
\* delinquency are numbers, in the order of the records and with the record's
\* own rating index, coverage and delinquency; it returns no row for any other
\* record, and a missing contract value, balance or modality does not remove
\* a record.
C17_RetainedIffCoreDrivers ==
    \A p \in Procs :
        pc[p] = "prepare" =>
            LET df == grupo[p].grupo
                rows == prepare_segment(df).rows
                kept == SelectSeq(AsSeq([i \in 1..Len(df) |-> i]), LAMBDA i : Retainable(df[i]))
            IN /\ Len(rows) = Len(kept)
               /\ \A m \in 1..Len(kept) :
                     LET r == df[kept[m]]
                     IN /\ rows[m].cliente_id = r.cliente_id
                        /\ rows[m].agencia_nome = r.agencia_nome
                        /\ rows[m].linha = r.linha
                        /\ RISK_ORDER[rows[m].risco_inicial_score + 1] = StrStrip(StrUpper(r.risco_inicial.s))
                        /\ rows[m].cob_garantia = to_numeric(r.cob_garantia).n
                        /\ rows[m].atraso = to_numeric(r.atraso).n

\* a cohort is about to be cleaned that has a record without contract value
\* and modality whose rating is written in lower case, which is kept, and
\* records that are dropped for their rating, their coverage and their
\* delinquency
C17_Witness ==
    \E p \in Procs :
        /\ pc[p] = "prepare"
        /\ LET df == grupo[p].grupo
           IN /\ \E i \in 1..Len(df) :
                    /\ Retainable(df[i])
                    /\ df[i].valor_contrato = Null
                    /\ df[i].mod_bacen = Null
                    /\ df[i].risco_inicial.s # StrUpper(df[i].risco_inicial.s)
              /\ \E i \in 1..Len(df) : ~Retainable(df[i]) /\ df[i].risco_inicial = Str(<<"Z", "Z">>)
              /\ \E i \in 1..Len(df) : ~Retainable(df[i]) /\ df[i].cob_garantia = Null
              /\ \E i \in 1..Len(df) : ~Retainable(df[i]) /\ df[i].atraso = Str(<<"x">>)
              /\ Len(prepare_segment(df).rows) = MinCleaned

\* C18 as stated: for every feature table the number of components is
\* min(3, min(5, n_features, n_samples - 1)), which exceeds neither the number
\* of features, nor the number of samples less one, nor 3.
C18_ComponentsAreTheMinimum ==
    \A p \in Procs :
        pc[p] = "sized" =>
            LET n_samples == Len(prepared[p].rows)
                n_features == Len(feature_cols(prepared[p]))
                m == factors_payload[p].n_components
            IN /\ m = Min(3, Min(5, Min(n_features, n_samples - 1)))
               /\ m <= n_features
               /\ m <= n_samples - 1
               /\ m <= 3

\* C18, amended: the same for every table with at least one feature and at
\* least two samples; for a table with fewer the number of components is 1;
\* it is never below 1 nor above 3.
C18_ComponentsWithFloor ==
    \A p \in Procs :
        pc[p] = "sized" =>
            LET n_samples == Len(prepared[p].rows)
                n_features == Len(feature_cols(prepared[p]))
                m == factors_payload[p].n_components
            IN /\ 1 <= m /\ m <= 3
               /\ (n_features >= 1 /\ n_samples >= 2) =>
                     /\ m = Min(3, Min(5, Min(n_features, n_samples - 1)))
                     /\ m <= n_features
                     /\ m <= n_samples - 1
               /\ (n_features < 1 \/ n_samples < 2) => m = 1

\* a table of two feature columns and many rows has been sized to two
\* components
C18_Witness ==
    \E p \in Procs :
        /\ pc[p] = "sized"
        /\ Len(prepared[p].rows) = MaxSamples
        /\ Len(feature_cols(prepared[p])) = 2
        /\ factors_payload[p].n_components = 2

\* for a factor matrix, what each candidate count k = 2..min(6, n - 1) gives:
\* the number of distinct clusters of its partition and, with two or more,
\* the silhouette of the partition (entry k of the sequence; entry 1 is unused)
CandidateFits(X) ==
    AsSeq([k \in 1..Max(1, Min(6, Len(X) - 1)) |->
        IF k < 2 THEN [clusters |-> 0, score |-> 0]
        ELSE LET labels == KMeans(X, k, 20, 42).labels
                 clusters == Cardinality(Range(labels))
             IN [clusters |-> clusters,
                 score |-> IF clusters < 2 THEN 0 ELSE silhouette_score(X, labels)]])

\* the candidates whose partition has at least two distinct clusters
ValidCandidates(fits) == {k \in 2..Len(fits) : fits[k].clusters >= 2}

\* k is the smallest of the valid candidates with the highest score
IsFirstBest(fits, k) ==
    /\ k \in ValidCandidates(fits)
    /\ \A j \in ValidCandidates(fits) : fits[j].score <= fits[k].score
    /\ \A j \in ValidCandidates(fits) : j < k => fits[j].score < fits[k].score

\* C19 as stated: when some candidate k has a partition of at least two
\* distinct clusters, pick_cluster_count returns the candidate with the
\* highest silhouette among those, the smallest one if several reach it.
C19_ReturnsFirstBestCandidate ==
    \A e \in log.selector :
        LET fits == CandidateFits(e.factors)
        IN ValidCandidates(fits) # {} => IsFirstBest(fits, e.k)

\* C19, amended: this holds when the highest silhouette is above 0, and the
\* score returned is that silhouette; when no candidate scores above 0 the
\* function returns k = 1 with score 0.
C19_ReturnsFirstBestPositive ==
    \A e \in log.selector :
        LET fits == CandidateFits(e.factors)
            valid == ValidCandidates(fits)
        IN /\ (\E j \in valid : fits[j].score > 0) =>
                 IsFirstBest(fits, e.k) /\ e.score = fits[e.k].score
           /\ (valid # {} /\ \A j \in valid : fits[j].score <= 0) => (e.k = 1 /\ e.score = 0)

\* the selector has returned the smaller of two candidates that reach the
\* same highest silhouette
C19_Witness ==
    \E e \in log.selector :
        LET fits == CandidateFits(e.factors)
        IN /\ IsFirstBest(fits, e.k)
           /\ fits[e.k].score > 0
           /\ \E j \in ValidCandidates(fits) : j > e.k /\ fits[j].score = fits[e.k].score

\* C20 as stated: pick_cluster_count returns (k = 1, score = 0) when
\* min(6, n_samples - 1) is below 2 and when every candidate k collapses to
\* fewer than two distinct clusters; in every other case the k it returns lies
\* in 2..min(6, n_samples - 1).
C20_FallbackOnlyWhenCollapsed ==
    \A e \in log.selector :
        LET max_k == Min(6, Len(e.factors) - 1)
            fits == CandidateFits(e.factors)
        IN IF max_k < 2 \/ ValidCandidates(fits) = {}
           THEN e.k = 1 /\ e.score = 0
           ELSE e.k \in 2..max_k

\* C20, amended: (k = 1, score = 0) is returned in those two cases and also
\* when no candidate with two or more distinct clusters has a silhouette
\* above 0; in every other case the returned k lies in 2..min(6, n_samples - 1),
\* its partition has two or more distinct clusters and the returned score is
\* above 0.
C20_FallbackWhenNoPositiveScore ==
    \A e \in log.selector :
        LET max_k == Min(6, Len(e.factors) - 1)
            fits == CandidateFits(e.factors)
        IN IF max_k < 2 \/ \A j \in ValidCandidates(fits) : fits[j].score <= 0
           THEN e.k = 1 /\ e.score = 0
           ELSE e.k \in 2..max_k /\ e.k \in ValidCandidates(fits) /\ e.score > 0

\* the selector has returned (1, 0) for a matrix of five rows in which every
\* candidate collapses to one cluster
C20_Witness ==
    \E e \in log.selector :
        /\ Len(e.factors) = 5
        /\ Min(6, Len(e.factors) - 1) = 4
        /\ ValidCandidates(CandidateFits(e.factors)) = {}
        /\ e.k = 1
        /\ e.score = 0

\* C21: cluster_factors called with k <= 1 gives every record the label 0,
\* one centre, the mean factor vector (to the precision kept), and silhouette
\* 0; called with k >= 2 it gives silhouette 0 whenever its assignment has
\* fewer than two distinct labels.
C21_OneClusterPayload ==
    \A p \in Procs :
        pc[p] = "detailed" =>
            LET X == factors_payload[p].factors
                n == Len(X)
                payload == cluster_payload[p]
            IN /\ Len(payload.labels) = n
               /\ picked[p].k <= 1 =>
                     /\ \A i \in 1..n : payload.labels[i] = 0
                     /\ Len(payload.centers) = 1
                     /\ payload.silhouette = 0
                     /\ n > 0 =>
                           /\ Len(payload.centers[1]) = Len(X[1])
                           /\ \A d \in 1..Len(X[1]) :
                                 (SumSeq([i \in 1..n |-> X[i][d]]) - n * payload.centers[1][d])
                                     \in (1 - n)..(n - 1)
               /\ (picked[p].k >= 2 /\ Cardinality(Range(payload.labels)) < 2) =>
                     payload.silhouette = 0

\* cluster_factors has returned for k = 1 on a matrix of several distinct rows
C21_Witness ==
    \E p \in Procs :
        /\ pc[p] = "detailed"
        /\ picked[p].k = 1
        /\ Cardinality(Range(factors_payload[p].factors)) >= 3
        /\ cluster_payload[p].centers # <<factors_payload[p].factors[1]>>
        /\ cluster_payload[p].silhouette = 0

\* the records of a cohort that the cleaning keeps, in order
KeptRecords(df) == SelectSeq(df, Retainable)

\* the cohort with other values and balances in the records that the cleaning drops
WithOtherDropped(df) ==
    AsSeq([i \in 1..Len(df) |->
        IF Retainable(df[i]) THEN df[i]
        ELSE [df[i] EXCEPT !.valor_contrato = Num(999), !.saldo_atual = Null]])

\* C22: in the frame prepare_segment returns, a contract value or balance
\* that was missing is the median of its column over the kept records of the
\* same cohort, and one that was present is the record's own; the frame is
\* the same whatever the dropped records hold and whatever cohorts were
\* processed before.
C22_ImputedFromKeptRows ==
    \A p \in Procs :
        pc[p] = "factor" =>
            LET df == grupo[p].grupo
                kept == KeptRecords(df)
                rows == prepared[p].rows
                valorMedian == median([j \in 1..Len(kept) |-> to_numeric(kept[j].valor_contrato)])
                saldoMedian == median([j \in 1..Len(kept) |-> to_numeric(kept[j].saldo_atual)])
            IN /\ Len(rows) = Len(kept)
               /\ \A m \in 1..Len(kept) :
                     /\ rows[m].valor_contrato =
                           IF IsNa(to_numeric(kept[m].valor_contrato)) THEN valorMedian
                           ELSE to_numeric(kept[m].valor_contrato)
                     /\ rows[m].saldo_atual =
                           IF IsNa(to_numeric(kept[m].saldo_atual)) THEN saldoMedian
                           ELSE to_numeric(kept[m].saldo_atual)
               /\ prepare_segment(WithOtherDropped(df)) = prepared[p]
               /\ prepare_segment(kept) = prepared[p]

\* after an earlier cohort has been processed, a cohort with dropped records
\* has been cleaned and a missing contract value has been filled with a
\* median that is a number
C22_Witness ==
    \E p \in Procs :
        /\ pc[p] = "factor"
        /\ consolidated_rows[p] # <<>>
        /\ Len(KeptRecords(grupo[p].grupo)) < Len(grupo[p].grupo)
        /\ \E m \in 1..Len(prepared[p].rows) :
              /\ IsNa(to_numeric(KeptRecords(grupo[p].grupo)[m].valor_contrato))
              /\ ~IsNa(prepared[p].rows[m].valor_contrato)
              /\ prepared[p].rows[m].valor_contrato # to_numeric(Num(999))

\* the rating of a record as prepare_segment normalises it
NormalRating(r) == StrStrip(StrUpper(r.risco_inicial.s))

\* how many levels of the scale are listed before the level
LevelsBefore(name) == Cardinality({i \in 1..Len(RISK_ORDER) :
                                    \E j \in (i + 1)..Len(RISK_ORDER) : RISK_ORDER[j] = name})

\* C23: in the frame prepare_segment returns, the risk score of a record is
\* an integer between 0 and 11, the number of levels the 12-level scale lists
\* before the record's normalised rating; it is 0 exactly for AA and 11
\* exactly for G, and of two records the one whose rating the scale lists
\* earlier has the strictly smaller score.
C23_ScoreIsScalePosition ==
    \A p \in Procs :
        pc[p] = "factor" =>
            LET kept == KeptRecords(grupo[p].grupo)
                rows == prepared[p].rows
            IN /\ Len(RISK_ORDER) = 12
               /\ Len(rows) = Len(kept)
               /\ \A m \in 1..Len(kept) :
                     /\ rows[m].risco_inicial_score \in 0..11
                     /\ rows[m].risco_inicial_score = LevelsBefore(NormalRating(kept[m]))
                     /\ rows[m].risco_inicial_score = 0 <=> NormalRating(kept[m]) = <<"A", "A">>
                     /\ rows[m].risco_inicial_score = 11 <=> NormalRating(kept[m]) = <<"G">>
               /\ \A m, n \in 1..Len(kept) :
                     LevelsBefore(NormalRating(kept[m])) < LevelsBefore(NormalRating(kept[n]))
                         => rows[m].risco_inicial_score < rows[n].risco_inicial_score

\* a cohort has been cleaned that holds a record rated AA, a record rated G
\* that was written in lower case, and the frame has the scores 0 and 11
C23_Witness ==
    \E p \in Procs :
        /\ pc[p] = "factor"
        /\ LET kept == KeptRecords(grupo[p].grupo)
               rows == prepared[p].rows
           IN /\ Len(rows) = Len(kept)
              /\ \E m, n \in 1..Len(kept) :
                    /\ kept[m].risco_inicial.s = <<"A", "A">>
                    /\ kept[n].risco_inicial.s = <<"g">>
                    /\ rows[m].risco_inicial_score = 0
                    /\ rows[n].risco_inicial_score = 11

\* the part of a file name between a prefix and a suffix
Between(name, prefix, suffix) == SubSeq(name, Len(prefix) + 1, Len(name) - Len(suffix))

\* a non-empty string of lower-case letters, digits and underscores that has
\* no underscore at either end and no two underscores in a row
IsSlug(s) ==
    /\ s # <<>>
    /\ \A i \in 1..Len(s) : IsLower(s[i]) \/ IsDigit(s[i]) \/ s[i] = "_"
    /\ s[1] # "_" /\ s[Len(s)] # "_"
    /\ \A i \in 1..(Len(s) - 1) : ~(s[i] = "_" /\ s[i + 1] = "_")

\* C24: the flat files of a cohort are named perfil_<slug>_clusters.csv and
\* perfil_<slug>_cluster_summary.csv, where the slug of the profile tag is a
\* non-empty string of lower-case letters, digits and underscores with no
\* underscore at either end and no two in a row, and slugify returns the
\* slug unchanged.
C24_SlugWellFormedAndStable ==
    \A p \in Procs :
        pc[p] = "persist" /\ grupo[p] # NoGrupo =>
            LET slug == slugify(grupo[p].perfil)
            IN
                /\ \E f \in output_dir.detailed : f.name = S_perfil_ \o slug \o S__clusters_csv
                /\ \E f \in output_dir.summary : f.name = S_perfil_ \o slug \o S__cluster_summary_csv
                /\ \A f \in output_dir.detailed :
                      LET named == Between(f.name, S_perfil_, S__clusters_csv)
                      IN IsSlug(named) /\ slugify(named) = named
                /\ \A f \in output_dir.summary :
                      LET named == Between(f.name, S_perfil_, S__cluster_summary_csv)
                      IN IsSlug(named) /\ slugify(named) = named

\* the records of the rows that have the value in the dimension and the label
RecordsOfPair(rows, dimension, value, cluster) ==
    {i \in 1..Len(rows) : Dimension(rows[i], dimension) = value /\ rows[i].cluster = cluster}

\* the view has one row for each (value, label) pair of the rows and no other
\* row, each with the number of distinct clients of its pair, and the rows
\* are in non-increasing order of that number
IsRollup(view, rows, dimension) ==
    /\ \A i \in 1..Len(rows) :
          Cardinality({g \in 1..Len(view) :
                          /\ view[g].value = Dimension(rows[i], dimension)
                          /\ view[g].cluster = rows[i].cluster}) = 1
    /\ \A g \in 1..Len(view) :
          /\ RecordsOfPair(rows, dimension, view[g].value, view[g].cluster) # {}
          /\ view[g].total_clientes =
                Cardinality({rows[i].cliente_id :
                                i \in RecordsOfPair(rows, dimension, view[g].value, view[g].cluster)})
    /\ \A g, h \in 1..Len(view) : g < h => view[g].total_clientes >= view[h].total_clientes

\* C25: when main writes the rollups, each of the three files has one row for
\* each (dimension value, cluster label) pair that occurs in the frames main
\* collected from the cohorts it processed, and no other row; the count of a
\* row is the number of distinct clients of its pair, and the rows are in
\* non-increasing order of the count.
C25_RollupRows ==
    [][\A p \in Procs :
          pc[p] = "aggregate" /\ pc'[p] = "exit" /\ consolidated_rows[p] # <<>> =>
              LET consolidated == concat(consolidated_rows[p])
              IN /\ \E f \in output_dir'.rollup :
                       /\ f.name = S_clusters_por_agencia_csv
                       /\ IsRollup(f.content, consolidated, "agencia_nome")
                 /\ \E f \in output_dir'.rollup :
                       /\ f.name = S_clusters_por_carteira_csv
                       /\ IsRollup(f.content, consolidated, "carteira_nome")
                 /\ \E f \in output_dir'.rollup :
                       /\ f.name = S_clusters_por_linha_csv
                       /\ IsRollup(f.content, consolidated, "linha")
                 /\ Cardinality(output_dir'.rollup) = 3]_vars

\* main has written the rollups of two cohorts: the rollup by portfolio has rows
\* with different counts, and a row whose pair has more records in the
\* detailed files than it has distinct clients
C25_Witness ==
    \E p \in Procs :
        /\ pc[p] = "exit"
        /\ Cardinality({r.perfil : r \in log.returned}) >= 2
        /\ \E f \in output_dir.rollup :
              /\ f.name = S_clusters_por_carteira_csv
              /\ \E g, h \in 1..Len(f.content) :
                    f.content[g].total_clientes > f.content[h].total_clientes
              /\ \E g \in 1..Len(f.content) :
                    \E d \in output_dir.detailed :
                        Cardinality(RecordsOfPair(d.content, "carteira_nome", f.content[g].value,
                                                  f.content[g].cluster)) > f.content[g].total_clientes

\* C26: when the run of a cohort has been committed, its per-client rows are
\* as many as the records of the cohort that the cleaning kept, the m-th row
\* is the row of the m-th kept record, and its label is the m-th label that
\* cluster_factors returned for the factor matrix, whose m-th row is that
\* record's.
C26_LabelsPersistedAsAssigned ==
    \A p \in Procs :
        pc[p] = "return" =>
            LET kept == KeptRecords(grupo[p].grupo)
                labels == cluster_payload[p].labels
                rows == RowsOf(db.cluster_run_clientes, pending[p].run_id)
            IN /\ Len(rows) = Len(kept)
               /\ Len(labels) = Len(kept)
               /\ Len(factors_payload[p].factors) = Len(kept)
               /\ \A m \in 1..Len(kept) :
                     /\ rows[m].cliente_id = kept[m].cliente_id
                     /\ rows[m].cliente_perfil = kept[m].cliente_perfil
                     /\ rows[m].agencia_nome = kept[m].agencia_nome
                     /\ rows[m].linha = kept[m].linha
                     /\ rows[m].risco_inicial = Str(NormalRating(kept[m]))
                     /\ rows[m].cluster = labels[m]
                     /\ rows[m].factors = factors_payload[p].factors[m]

\* the run of a cohort has been committed from which the cleaning dropped
\* records, whose per-client rows carry two labels, and in which one client
\* has rows with different labels
C26_Witness ==
    \E p \in Procs :
        /\ pc[p] = "return"
        /\ Len(KeptRecords(grupo[p].grupo)) < Len(grupo[p].grupo)
        /\ LET rows == RowsOf(db.cluster_run_clientes, pending[p].run_id)
           IN \E m, n \in 1..Len(rows) :
                 /\ rows[m].cliente_id = rows[n].cliente_id
                 /\ rows[m].cluster # rows[n].cluster
                 /\ cluster_payload[p].labels[m] # cluster_payload[p].labels[n]

\* C27: pick_cluster_count never returns a k of 2 or more with a score that
\* is not above 0, and never returns the score 0 with a k other than 1; when
\* candidates have partitions of two or more distinct clusters and none of
\* them scores above 0, it returns k = 1 and the score 0.
C27_PositiveScoreOrOneCluster ==
    \A e \in log.selector :
        LET fits == CandidateFits(e.factors)
        IN /\ e.k >= 1
           /\ e.k >= 2 => e.score > 0
           /\ e.score = 0 => e.k = 1
           /\ (\A j \in ValidCandidates(fits) : fits[j].score <= 0) => e.k = 1 /\ e.score = 0

\* the selector has returned (1, 0) for a matrix all of whose candidates have
\* two or more distinct clusters and none of which scores above 0
C27_Witness ==
    \E e \in log.selector :
        LET fits == CandidateFits(e.factors)
        IN /\ Len(fits) >= 2
           /\ \A j \in 2..Len(fits) : fits[j].clusters >= 2 /\ fits[j].score <= 0
           /\ e.k = 1
           /\ e.score = 0

\* C28: every run that is persisted, or handed to the database to be
\* persisted, has n_components = 3 in its parameters, and the factor mapping
\* of each of its per-client rows has no key other than factor_1, factor_2
\* and factor_3.
C28_ThreeComponents ==
    /\ \A h \in Headers : h.parametros.n_components = 3
    /\ \A c \in Range(db.cluster_run_clientes) : DOMAIN c.factors \subseteq 1..3
    /\ \A r \in log.intended :
          /\ \A i \in 1..Len(r.run_row) : r.run_row[i].parametros.n_components = 3
          /\ \A i \in 1..Len(r.cliente_records) : DOMAIN r.cliente_records[i].factors \subseteq 1..3
    /\ \A p \in Procs :
          pc[p] \in {"pick", "cluster", "detailed", "summarize", "persist"} =>
              /\ Len(prepared[p].rows) >= MinCleaned
              /\ Len(feature_cols(prepared[p])) >= 5 + 1
              /\ factors_payload[p].n_components = 3

\* a run has been committed for a cohort of exactly five cleaned rows with six
\* feature columns; its parameters have n_components = 3 and a per-client
\* row of it has the three factor keys
C28_Witness ==
    \E p \in Procs :
        /\ pc[p] = "return"
        /\ Len(prepared[p].rows) = MinCleaned
        /\ Len(feature_cols(prepared[p])) = 5 + 1
        /\ \E h \in Headers :
              /\ h.run_id = pending[p].run_id
              /\ h.parametros.n_components = 3
              /\ \E c \in Range(db.cluster_run_clientes) :
                    c.run_id = h.run_id /\ DOMAIN c.factors = 1..3

\* C29: every persisted run has at least one summary row and at most
\* max(1, n_clusters) of them, n_clusters being the k of the selector that
\* the run's parameters hold; the same holds of every run handed to the
\* database.
C29_SummaryRowsWithinK ==
    /\ \A h \in Headers :
          LET n == Len(RowsOf(db.cluster_run_resumo, h.run_id))
          IN 1 <= n /\ n <= Max(1, h.parametros.n_clusters)
    /\ \A r \in log.intended :
          /\ Len(r.run_row) = 1
          /\ 1 <= Len(r.summary_records)
          /\ Len(r.summary_records) <= Max(1, r.run_row[1].parametros.n_clusters)
    /\ \A p \in Procs :
          pc[p] = "persist" =>
              /\ Len(summary[p]) = Cardinality(Range(cluster_payload[p].labels))
              /\ Range(cluster_payload[p].labels) \subseteq 0..(Max(1, picked[p].k) - 1)
              /\ 1 <= Len(summary[p])
              /\ Len(summary[p]) <= Max(1, picked[p].k)

\* a run is persisted whose parameters have n_clusters = 2 and which has two
\* summary rows, and a run whose parameters have n_clusters = 1 and which has one
C29_Witness ==
    /\ \E h \in Headers :
          /\ h.parametros.n_clusters = 2
          /\ Len(RowsOf(db.cluster_run_resumo, h.run_id)) = 2
    /\ \E h \in Headers :
          /\ h.parametros.n_clusters = 1
          /\ Len(RowsOf(db.cluster_run_resumo, h.run_id)) = 1

\* the profiles whose cohort build_segment_outputs has skipped
SkippedPerfis == {e.perfil : e \in {x \in log.admission : ~x.admitted}}

\* the profiles main can meet
CohortPerfis == {PerfilA, PerfilB}

\* main takes up a cohort only between two cohorts, and it is the next of the
\* groups in their order
OneAfterAnother ==
    \A p \in Procs :
        grupo'[p] # grupo[p] /\ grupo'[p] # NoGrupo =>
            /\ pc[p] = "loop" /\ pc'[p] = "build"
            /\ groups[p] # <<>>
            /\ grupo'[p] = Head(groups[p])
            /\ groups'[p] = Tail(groups[p])
            /\ prepared[p] = NoFrame /\ pending[p] = NoPending

\* a skip takes main back to the loop with the remaining groups and the
\* collected frames as they were, and writes nothing
SkipGoesOn ==
    \A p \in Procs :
        pc[p] \in {"build", "prepare"} /\ pc'[p] # "prepare" /\ pc'[p] # "factor" =>
            /\ pc'[p] = "loop"
            /\ groups'[p] = groups[p]
            /\ consolidated_rows'[p] = consolidated_rows[p]
            /\ output_dir' = output_dir /\ db' = db

\* the rollups change only when main has left the loop with no group left and
\* every cohort skipped or returned, and then they are the three rollups of
\* the frames of the cohorts that were not skipped
RollupsAtTheEnd ==
    output_dir'.rollup # output_dir.rollup =>
        \E p \in Procs :
            /\ pc[p] = "aggregate" /\ pc'[p] = "exit"
            /\ groups[p] = <<>>
            /\ \A perfil \in Perfis :
                  perfil \in SkippedPerfis \/ \E r \in log.returned : r.perfil = perfil
            /\ Len(consolidated_rows[p]) = Cardinality(Perfis \ SkippedPerfis)
            /\ Len(consolidated_rows[p]) >= 1
            /\ \A i \in 1..Len(consolidated_rows[p]) : \A j \in 1..Len(consolidated_rows[p][i]) :
                  consolidated_rows[p][i][j].cliente_perfil \notin SkippedPerfis
            /\ \A f \in output_dir'.rollup :
                  \E dimension \in {"agencia_nome", "carteira_nome", "linha"} :
                      IsRollup(f.content, concat(consolidated_rows[p]), dimension)

\* main ends without touching the files when the source has no rows or every
\* cohort was skipped
NoRollupsWithoutResult ==
    \A p \in Procs :
        /\ pc[p] \in {"load", "aggregate"}
        /\ pc'[p] = "exit"
        /\ source = <<>> \/ Perfis \subseteq SkippedPerfis
        => output_dir' = output_dir

\* C30: main takes up the cohorts one after another in the order of the
\* groups; a skip leaves the remaining groups as they were and the cohort
\* that follows a skipped one is taken up; the rollups are written only when
\* no group is left and every cohort has been skipped or has returned, they
\* are made of the frames of the cohorts that were not skipped, and nothing
\* is written when the source has no rows or every cohort was skipped.
C30_MainLoop ==
    /\ [][OneAfterAnother /\ SkipGoesOn /\ RollupsAtTheEnd /\ NoRollupsWithoutResult]_vars
    /\ \A p \in Procs : \A perfil \in CohortPerfis :
          (pc[p] = "loop" /\ grupo[p].perfil \in SkippedPerfis
             /\ groups[p] # <<>> /\ Head(groups[p]).perfil = perfil)
          ~> (pc[p] = "build" /\ grupo[p].perfil = perfil)

\* main has ended and written the rollups after it skipped the first cohort
\* and processed the one that follows it
C30_Witness ==
    \E p \in Procs :
        /\ pc[p] = "exit"
        /\ Cardinality(output_dir.rollup) = 3
        /\ \E s \in SkippedPerfis : \E r \in log.returned :
              /\ StrLess(s, r.perfil)
              /\ \A f \in output_dir.rollup : f.content # <<>>

====
